---- MODULE Spec2Model ----
(***************************************************************************)
(* labkit.core.analysis: the constrained least-squares reconstruction      *)
(* routines (deconfusion, qubit_state_tomography, process_tomography).     *)
(*                                                                         *)
(* One behaviour is one call: Init draws the function and its arguments,   *)
(* every action is one statement (or run of statements) of the function    *)
(* body, in source order.  Real numbers are exact fixed-point integers in  *)
(* units of 1e-6 (One = 1.0); products are kept exact in a radix-10^4      *)
(* representation so that no comparison is rounded.  The optimisation      *)
(* backend is what cvxpy's Problem.solve() is to the code: it is handed    *)
(* the objective and the constraints the code formulated and answers with  *)
(* a minimiser of that objective over that feasible set, searched on the   *)
(* lattice of multiples of 1/Grid.                                         *)
(*                                                                         *)
(* Spec is one call with a backend that reaches an optimal point or raises *)
(* SolverError; SpecBackendFailure adds the backend's statuses infeasible  *)
(* and unbounded; SpecConcurrent runs two calls at once.                   *)
(*                                                                         *)
(* labkit.drivers (the network-analyser driver) and labkit.visualizations  *)
(* (SelectableTable) are objects that live across calls: SpecVNA and       *)
(* SpecTable start from the constructed object and take one method call    *)
(* or event handler after another.                                         *)
(***************************************************************************)
EXTENDS Integers, Sequences, FiniteSets, TLC

VARIABLES
    fn,            \* the function being called
    pc,            \* position in its body
    C,             \* deconfusion: confusion matrix (sequence of rows)
    p_measured,    \* deconfusion: measured probabilities
    n,             \* local n
    stdout,        \* lines printed so far
    prob,          \* the cvxpy Problem formulated (objective + constraints)
    solve_calls,   \* number of prob.solve() invocations in this call
    result,        \* local: value returned by prob.solve()
    value,         \* the optimisation variable's .value
    ret,           \* what the call returned
    exc,           \* the exception the call raised
    measurement_bases,  \* qubit_state_tomography: sequence of operators
    values,             \* qubit_state_tomography: sequence of expectation values
    rho_before,    \* process_tomography: stack of input states
    rho_after,     \* process_tomography: stack of output states
    expand_basis,  \* process_tomography: stack of expansion operators
    A,             \* local: the design matrix
    Y,             \* local: the target vector of process_tomography
    N,             \* local of process_tomography
    n_basis,       \* local of process_tomography
    other,         \* the frame of a second call in progress, while it is not running
    driver,        \* VNA: the module the driver object comes from
    trace,         \* VNA: the driver's attribute self.trace
    cont,          \* VNA: the instrument's INIT:CONT setting
    averaging,     \* VNA: the instrument's SENS:AVER setting
    defined,       \* VNA: the measurements defined on the instrument
    prev_cont,     \* VNA: local of average_sweep
    s_list,        \* VNA: local of average_sweep
    results,       \* VNA: local of average_sweep
    cont_before,   \* VNA: INIT:CONT as it was when average_sweep was entered
    rows,          \* SelectableTable: self.rows
    row_key,       \* SelectableTable: self.row_key
    on_change,     \* SelectableTable: whether a callback was given
    selected_index,     \* SelectableTable: self.selected_index
    emitted,       \* SelectableTable: the on_change calls of the handler that ran last
    table_selected,     \* SelectableTable: self.table.selected
    table_rows,    \* SelectableTable: the rows the ui.table widget holds
    table_shares_rows,  \* SelectableTable: the widget's list is the object self.rows
    arg            \* SelectableTable: the argument of the handler that ran last

\* the arguments and locals of deconfusion, of the tomography routines; no
\* statement of a routine touches the frame of another call
deconfVars == <<C, p_measured>>
\* the state of the instrument driver and of the table widget, which the
\* analysis routines never see
vnaVars == <<driver, trace, cont, averaging, defined, prev_cont, s_list, results, cont_before>>
tableVars == <<rows, row_key, on_change, selected_index, emitted, table_selected, table_rows,
               table_shares_rows, arg>>
tomoVars == <<measurement_bases, values, rho_before, rho_after, expand_basis, A, Y, N, n_basis,
              other, vnaVars, tableVars>>
\* the arguments and locals of the analysis routines, which the driver and
\* the widget never see
analysisVars == <<C, p_measured, n, prob, solve_calls, result, value, measurement_bases, values,
                  rho_before, rho_after, expand_basis, A, Y, N, n_basis, other>>

vars == <<fn, pc, C, p_measured, n, stdout, prob, solve_calls, result, value, ret, exc,
          measurement_bases, values, rho_before, rho_after, expand_basis, A, Y, N, n_basis,
          other, vnaVars, tableVars>>

(***************************************************************************)
(* Bounds of the model.                                                    *)
(***************************************************************************)
\* The backend searches the points whose coordinates are multiples of 1/Grid.
Grid == 10
\* ... with coordinates from -Ext/Grid to 1 + Ext/Grid.
Ext == 2
\* The entries of a matrix variable are searched on the multiples of 1/MGrid.
MGrid == 2

(***************************************************************************)
(* Fixed-point scale and the program's numeric constants.                  *)
(***************************************************************************)
\* 1.0 in units of 1e-6 (the entries of np.ones((n,))).
One == 1000000
\* atol=1e-6 of the np.allclose call, in units of 1e-6.
atol == 1
\* np.allclose's default rtol = 1e-5 = 1/rtol_inv (not overridden by the call).
rtol_inv == 100000
\* the threshold of `np.linalg.cond(C) > 10`.
cond_threshold == 10

\* Values that are not there: a variable never assigned, Python's None.
Unset == [unset |-> TRUE]
None == <<>>

(***************************************************************************)
(* Exact integer arithmetic beyond 32 bits: a number is five radix-10^4    *)
(* digits, least significant first; digits 1..4 are in 0..Base-1 and the   *)
(* fifth carries the sign.                                                 *)
(***************************************************************************)
Base == 100 * 100

Norm(r) ==
    LET t2 == r[2] + (r[1] \div Base)
        t3 == r[3] + (t2 \div Base)
        t4 == r[4] + (t3 \div Base)
        t5 == r[5] + (t4 \div Base)
    IN  <<r[1] % Base, t2 % Base, t3 % Base, t4 % Base, t5>>

BigZero == <<0, 0, 0, 0, 0>>

\* a * b, for |a|, |b| < 10^8.
BigMul(a, b) ==
    LET a0 == a % Base
        a1 == a \div Base
        b0 == b % Base
        b1 == b \div Base
    IN  Norm(<<a0 * b0, a0 * b1 + a1 * b0, a1 * b1, 0, 0>>)

BigAdd(x, y) == Norm(<<x[1] + y[1], x[2] + y[2], x[3] + y[3], x[4] + y[4], x[5] + y[5]>>)

BigSub(x, y) == Norm(<<x[1] - y[1], x[2] - y[2], x[3] - y[3], x[4] - y[4], x[5] - y[5]>>)

\* k * x for a small integer k.
BigScale(k, x) == Norm(<<k * x[1], k * x[2], k * x[3], k * x[4], k * x[5]>>)

BigNeg(x) == x[5] < 0

BigAbs(x) == IF BigNeg(x) THEN BigScale(-1, x) ELSE x

\* x < y
BigLess(x, y) == BigNeg(BigSub(x, y))

Abs(x) == IF x < 0 THEN -x ELSE x

RECURSIVE SumTo(_, _)
\* f[1] + ... + f[k]
SumTo(f, k) == IF k = 0 THEN 0 ELSE f[k] + SumTo(f, k - 1)

RECURSIVE BigSumTo(_, _)
BigSumTo(f, k) == IF k = 0 THEN BigZero ELSE BigAdd(f[k], BigSumTo(f, k - 1))

(***************************************************************************)
(* numpy: shapes, sums, allclose, cond.                                    *)
(***************************************************************************)
\* M.shape of a 2-D array, v.shape of a 1-D array.
Shape(M) == <<Len(M), Len(M[1])>>
Shape1(v) == <<Len(v)>>

\* np.sum(M, axis=0)
ColumnSums(M) == [j \in 1..Len(M[1]) |-> SumTo([i \in 1..Len(M) |-> M[i][j]], Len(M))]

\* np.isclose(a, b, rtol, atol): |a - b| <= atol + rtol * |b|
IsClose(a, b) == Abs(a - b) <= atol + (Abs(b) \div rtol_inv)

\* np.allclose(a, b, atol=1e-6) on two vectors of the same length
AllClose(a, b) == \A j \in 1..Len(a) : IsClose(a[j], b[j])

\* np.ones((k,))
Ones(k) == [j \in 1..k |-> One]

\* Sum of the squared entries of M: sigma_max^2 + sigma_min^2 for a 2x2 matrix.
FrobeniusSq(M) ==
    BigSumTo([i \in 1..Len(M) |->
                 BigSumTo([j \in 1..Len(M[1]) |-> BigMul(M[i][j], M[i][j])], Len(M[1]))],
             Len(M))

\* |det M| of a 2x2 matrix: sigma_max * sigma_min.
AbsDet2(M) == BigAbs(BigSub(BigMul(M[1][1], M[2][2]), BigMul(M[1][2], M[2][1])))

\* np.linalg.cond(M) > t for the 2-norm condition number k = sigma_max/sigma_min
\* of a 1x1 or 2x2 matrix.  A singular matrix has k = inf.  For 2x2, with
\* F = sigma_max^2 + sigma_min^2 and D = sigma_max * sigma_min, k + 1/k = F/D, and
\* k > t  <=>  k + 1/k > t + 1/t  <=>  t * F > (t*t + 1) * D   (k >= 1, t >= 1).
CondGreater(M, t) ==
    IF Len(M) = 1
    THEN IF M[1][1] = 0 THEN TRUE ELSE 1 > t
    ELSE LET F == FrobeniusSq(M)
             D == AbsDet2(M)
         IN  \/ D = BigZero
             \/ BigLess(BigScale(t * t + 1, D), BigScale(t, F))

(***************************************************************************)
(* Complex numbers <<re, im>> and complex matrices (sequences of rows).    *)
(***************************************************************************)
Re(z) == z[1]
Im(z) == z[2]
CZero == <<0, 0>>
CAdd(x, y) == <<x[1] + y[1], x[2] + y[2]>>
CSub(x, y) == <<x[1] - y[1], x[2] - y[2]>>
CMul(x, y) == <<x[1] * y[1] - x[2] * y[2], x[1] * y[2] + x[2] * y[1]>>
CConj(z) == <<z[1], 0 - z[2]>>
CScale(k, z) == <<k * z[1], k * z[2]>>

RECURSIVE CSumTo(_, _)
CSumTo(f, k) == IF k = 0 THEN CZero ELSE CAdd(f[k], CSumTo(f, k - 1))

\* X @ Z
MatMul(X, Z) ==
    [i \in 1..Len(X) |->
        [j \in 1..Len(Z[1]) |->
            CSumTo([k \in 1..Len(Z) |-> CMul(X[i][k], Z[k][j])], Len(Z))]]

\* X.conj().swapaxes(-1, -2)
Dagger(X) == [i \in 1..Len(X[1]) |-> [j \in 1..Len(X) |-> CConj(X[j][i])]]

\* Mutant: row-major (order "C") flattening.
VecC(X) ==
    [q \in 1..(Len(X) * Len(X[1])) |->
        X[((q - 1) \div Len(X[1])) + 1][((q - 1) % Len(X[1])) + 1]]

\* Column-major (order "F") flattening of a matrix: entry [r][c] (0-based) goes
\* to position r + rows * c.
VecF(X) ==
    [q \in 1..(Len(X) * Len(X[1])) |->
        X[((q - 1) % Len(X)) + 1][((q - 1) \div Len(X)) + 1]]

(***************************************************************************)
(* The optimisation backend.  A problem P is                               *)
(*   [var, n, A, b, objective, constraints]:                               *)
(* minimise objective(A @ x - b) over the variable x (an n-vector, or the  *)
(* column-major vec of an n x n Hermitian matrix) subject to constraints.  *)
(***************************************************************************)
Lattice(den) == (0 - Ext)..(den + Ext)

\* cpy.Variable(k): numerators over Grid.
VectorCandidates(k) == [1..k -> Lattice(Grid)]

\* cpy.Variable((k, k), hermitian=True): numerators over MGrid.  For k > 2 the
\* search is over the diagonal Hermitian matrices only.
HermitianCandidates(k) ==
    IF k = 1
    THEN {<< << <<a, 0>> >> >> : a \in Lattice(MGrid)}
    ELSE IF k = 2
    THEN {<< << <<a, 0>>, <<x, y>> >>, << <<x, 0 - y>>, <<d, 0>> >> >> :
             a \in Lattice(MGrid), d \in Lattice(MGrid),
             x \in (0 - MGrid)..MGrid, y \in (0 - MGrid)..MGrid}
    ELSE {[i \in 1..k |-> [j \in 1..k |-> IF i = j THEN <<f[i], 0>> ELSE CZero]] :
             f \in [1..k -> Lattice(MGrid)]}

Candidates(P) ==
    IF P.var = "vector" THEN VectorCandidates(P.n) ELSE HermitianCandidates(P.n)

IsDiagonal(X) == \A i \in 1..Len(X) : \A j \in 1..Len(X) : i # j => X[i][j] = CZero

\* X >> 0 for a Hermitian X that is 1x1, 2x2 or diagonal.
PSD(X) ==
    IF IsDiagonal(X)
    THEN \A i \in 1..Len(X) : Re(X[i][i]) >= 0
    ELSE /\ Re(X[1][1]) >= 0
         /\ Re(X[2][2]) >= 0
         /\ Re(X[1][1]) * Re(X[2][2]) >= Re(X[1][2]) * Re(X[1][2]) + Im(X[1][2]) * Im(X[1][2])

\* One constraint of a problem, on the point x.
Satisfies(x, c) ==
    CASE c = "0 <= p"         -> \A i \in DOMAIN x : 0 <= x[i]
      [] c = "p <= 1"         -> \A i \in DOMAIN x : x[i] <= Grid
      [] c = "sum(p) == 1"    -> SumTo(x, Len(x)) = Grid
      [] c = "trace(X) == 1"  -> SumTo([i \in 1..Len(x) |-> Re(x[i][i])], Len(x)) = MGrid
      [] c = "X >> 0"         -> PSD(x)

Feasible(P) == {x \in Candidates(P) : \A c \in P.constraints : Satisfies(x, c)}

\* Mutant: the target is added instead of subtracted.
ResidualPlus(M, b, p, i) == SumTo([j \in 1..Len(p) |-> M[i][j] * p[j]], Len(p)) + Grid * b[i]

\* Row i of M @ p - b for real M, b and a vector p; times Grid.
Residual(M, b, p, i) == SumTo([j \in 1..Len(p) |-> M[i][j] * p[j]], Len(p)) - Grid * b[i]

\* Mutant: the target is left out of the objective.
SumSquaresNoTarget(M, b, p) ==
    BigSumTo([i \in 1..Len(M) |->
                 LET r == SumTo([j \in 1..Len(p) |-> M[i][j] * p[j]], Len(p))
                 IN  BigMul(r, r)], Len(M))

\* cpy.sum_squares(M @ p - b), times Grid^2.
SumSquares(M, b, p) ==
    BigSumTo([i \in 1..Len(M) |->
                 LET r == Residual(M, b, p, i) IN BigMul(r, r)], Len(M))

\* Row i of M @ v - b for complex M, b and v = vec(X); times MGrid.
CResidual(M, b, v, i) ==
    CSub(CSumTo([j \in 1..Len(v) |-> CMul(M[i][j], v[j])], Len(v)), CScale(MGrid, b[i]))

\* cpy.sum_squares(cpy.real(M @ v - b)), times MGrid^2.
SumSquaresReal(M, b, v) ==
    BigSumTo([i \in 1..Len(M) |->
                 LET r == Re(CResidual(M, b, v, i)) IN BigMul(r, r)], Len(M))

\* cpy.sum_squares(M @ v - b) of a complex expression: the squared moduli.
SumSquaresComplex(M, b, v) ==
    BigSumTo([i \in 1..Len(M) |->
                 LET z == CResidual(M, b, v, i)
                 IN  BigAdd(BigMul(Re(z), Re(z)), BigMul(Im(z), Im(z)))], Len(M))

Objective(P, x) ==
    CASE P.objective = "sum_squares(A @ p - b)"            -> SumSquares(P.A, P.b, x)
      [] P.objective = "sum_squares(real(A @ vec(X) - b))" -> SumSquaresReal(P.A, P.b, VecF(x))
      [] P.objective = "sum_squares(A @ vec(X) - b)"       -> SumSquaresComplex(P.A, P.b, VecF(x))

\* The optimal points of P.
Minimisers(P) ==
    LET F == Feasible(P)
        objs == {Objective(P, x) : x \in F}
        optimum == CHOOSE v \in objs : \A w \in objs : ~BigLess(w, v)
    IN  {x \in F : Objective(P, x) = optimum}

(***************************************************************************)
(* Arguments a call is made with.                                          *)
(***************************************************************************)
\* First entries of a column and the amount (in 1e-6) by which the column's
\* sum misses 1.
Tops == {0, 50000, 450000, 550000, 900000, 910000, 950000, 1000000}
Devs == {0, 1, 5, 11, 12, -12}

Column(a, d) == <<a, One - a + d>>

SquareCs ==
    {<< <<c1[1], c2[1]>>, <<c1[2], c2[2]>> >> :
        c1 \in {Column(a, d) : a \in Tops, d \in Devs},
        c2 \in {Column(a, d) : a \in Tops, d \in {0, 12}}}

OneByOneCs == {<< <<One + d>> >> : d \in {0, 5, 12}}

NonSquareCs ==
    { << <<900000, 100000>> >>,                               \* 1 x 2
      << <<One>>, <<0>> >>,                                   \* 2 x 1
      << <<500000, 500000, 0>>, <<500000, 500000, One>> >> }  \* 2 x 3

CInputs == SquareCs \cup OneByOneCs \cup NonSquareCs

PVals == {0, 400000, 600000, 1000000}

PInputs ==
    {<<a, b>> : a \in PVals, b \in PVals}
        \cup {<<One>>, <<400000>>, <<400000, 600000, 0>>}

(***************************************************************************)
(* deconfusion(C, p_measured)                                              *)
(***************************************************************************)
Raise(type, msg) ==
    /\ pc' = "raised"
    /\ exc' = [type |-> type, msg |-> msg]

\* Mutant: only the number of rows is compared.
IsSquareRowsOnly(M, k) == Shape(M)[1] = k

\* n = C.shape[0]; assert C.shape == (n, n), "C must be square matrix"
IsSquare(M, k) == Shape(M) = <<k, k>>

DeconfCheckSquare ==
    /\ fn = "deconfusion" /\ pc = "L14"
    /\ n' = Shape(C)[1]
    /\ IF IsSquare(C, n')
       THEN pc' = "L17" /\ exc' = exc
       ELSE Raise("AssertionError", "C must be square matrix")
    /\ UNCHANGED <<tomoVars, fn, C, p_measured, stdout, prob, solve_calls, result, value, ret>>

\* Mutant: a longer p_measured is let through.
HasLengthAtLeast(v, k) == Len(v) >= k

\* assert p_measured.shape == (n, ), "p.shape must be coordinate with C"
HasLength(v, k) == Shape1(v) = <<k>>

\* Mutant: the length of p_measured is not checked ahead of the column sums.
DeconfCheckLengthSkipped ==
    /\ fn = "deconfusion" /\ pc = "L17"
    /\ pc' = "L19"
    /\ UNCHANGED <<tomoVars, fn, C, p_measured, n, stdout, prob, solve_calls, result, value,
                   ret, exc>>

DeconfCheckLength ==
    /\ fn = "deconfusion" /\ pc = "L17"
    /\ IF HasLength(p_measured, n)
       THEN pc' = "L19" /\ exc' = exc
       ELSE Raise("AssertionError", "p.shape must be coordinate with C")
    /\ UNCHANGED <<tomoVars, fn, C, p_measured, n, stdout, prob, solve_calls, result, value, ret>>

\* Mutant: the rows are summed (axis=1) instead of the columns.
RowStochastic(M, k) ==
    AllClose([i \in 1..Len(M) |-> SumTo(M[i], Len(M[i]))], Ones(k))

\* assert np.allclose(np.sum(C, axis=0), np.ones((n,)), atol=1e-6), "C must be ..."
ColumnStochastic(M, k) == AllClose(ColumnSums(M), Ones(k))

DeconfCheckStochastic ==
    /\ fn = "deconfusion" /\ pc = "L19"
    /\ IF ColumnStochastic(C, n)
       THEN pc' = "L21" /\ exc' = exc
       ELSE Raise("AssertionError", "C must be column-wise stochastic matrix")
    /\ UNCHANGED <<tomoVars, fn, C, p_measured, n, stdout, prob, solve_calls, result, value, ret>>

\* Mutant: the comparison is >= instead of >.
IllConditionedInclusive(M) ==
    IF Len(M) = 1
    THEN CondGreater(M, cond_threshold)
    ELSE ~BigLess(BigScale(cond_threshold, FrobeniusSq(M)),
                  BigScale(cond_threshold * cond_threshold + 1, AbsDet2(M)))

\* if np.linalg.cond(C) > 10: print(...); print(...); print(...)
IllConditioned(M) == CondGreater(M, cond_threshold)

ConditionWarning ==
    << "Warning, Condition number of C is {cond:.2}, larger than 10, ",
       "which means the problem is strongly ill-conditioned.",
       "The result may not be reliable." >>

\* Mutant: the diagnostic aborts the call.
DeconfConditionFatal ==
    /\ fn = "deconfusion" /\ pc = "L21"
    /\ IF IllConditioned(C)
       THEN /\ stdout' = stdout \o ConditionWarning
            /\ Raise("IllConditionedWarning", "The result may not be reliable.")
       ELSE /\ stdout' = stdout
            /\ pc' = "L26" /\ exc' = exc
    /\ UNCHANGED <<tomoVars, fn, C, p_measured, n, prob, solve_calls, result, value, ret>>

DeconfCondition ==
    /\ fn = "deconfusion" /\ pc = "L21"
    /\ stdout' = IF IllConditioned(C) THEN stdout \o ConditionWarning ELSE stdout
    /\ pc' = "L26"
    /\ UNCHANGED <<tomoVars, fn, C, p_measured, n, prob, solve_calls, result, value, ret, exc>>

\* p_unconfused = cpy.Variable(n)
\* objective = cpy.Minimize(cpy.sum_squares(C @ p_unconfused - p_measured))
\* constraints = [0 <= p_unconfused, p_unconfused <= 1, cpy.sum(p_unconfused)==1.0]
\* prob = cpy.Problem(objective, constraints)
\* Mutant: the normalisation constraint is left out.
DeconfConstraintsNoSum == {"0 <= p", "p <= 1"}

DeconfConstraints == {"0 <= p", "p <= 1", "sum(p) == 1"}

DeconfProblem(M, v, k) ==
    [var |-> "vector", n |-> k, A |-> M, b |-> v,
     objective |-> "sum_squares(A @ p - b)", constraints |-> DeconfConstraints]

\* Mutant: building the problem zeroes the caller's p_measured in place.
DeconfFormulateInPlace ==
    /\ fn = "deconfusion" /\ pc = "L26"
    /\ prob' = DeconfProblem(C, p_measured, n)
    /\ p_measured' = [i \in DOMAIN p_measured |-> 0]
    /\ pc' = "L33"
    /\ UNCHANGED <<tomoVars, fn, C, n, stdout, solve_calls, result, value, ret, exc>>

DeconfFormulate ==
    /\ fn = "deconfusion" /\ pc = "L26"
    /\ prob' = DeconfProblem(C, p_measured, n)
    /\ pc' = "L33"
    /\ UNCHANGED <<tomoVars, fn, C, p_measured, n, stdout, solve_calls, result, value, ret, exc>>

\* result = prob.solve(): the backend answers with an optimal point ...
DeconfSolve ==
    /\ fn = "deconfusion" /\ pc = "L33"
    /\ solve_calls' = solve_calls + 1
    /\ \E p \in Minimisers(prob) :
          /\ value' = p
          /\ result' = Objective(prob, p)
    /\ pc' = "L36"
    /\ UNCHANGED <<tomoVars, fn, C, p_measured, n, stdout, prob, ret, exc>>

\* ... or fails inside the solver: cvxpy raises SolverError out of prob.solve().
DeconfSolveError ==
    /\ fn = "deconfusion" /\ pc = "L33"
    /\ solve_calls' = solve_calls + 1
    /\ Raise("SolverError", "Solver failed.")
    /\ UNCHANGED <<tomoVars, fn, C, p_measured, n, stdout, prob, result, value, ret>>

\* Mutant: the residual is returned with p.
DeconfReturnedWithResidual(v, r) == [value |-> v, residual |-> r]

\* return p_unconfused.value
DeconfReturned(v, r) == [value |-> v]

DeconfReturn ==
    /\ fn = "deconfusion" /\ pc = "L36"
    /\ ret' = DeconfReturned(value, result)
    /\ pc' = "returned"
    /\ UNCHANGED <<tomoVars, fn, C, p_measured, n, stdout, prob, solve_calls, result, value, exc>>

(***************************************************************************)
(* qubit_state_tomography(measurement_bases, values)                       *)
(* Operators are complex matrices with entries in units of 1e-6.           *)
(***************************************************************************)
R(x) == <<x * One, 0>>
I(y) == <<0, y * One>>

sigmax == << <<R(0), R(1)>>, <<R(1), R(0)>> >>
sigmay == << <<R(0), I(-1)>>, <<I(1), R(0)>> >>
sigmaz == << <<R(1), R(0)>>, <<R(0), R(-1)>> >>
scalar1 == << <<R(1)>> >>
wide == << <<R(1), R(0)>> >>
\* a square operator that is not Hermitian
lowering == << <<R(0), R(0)>>, <<R(1), R(0)>> >>

BasesInputs ==
    { <<>>, <<scalar1>>, <<sigmaz>>, <<sigmax, sigmaz>>, <<sigmax, sigmay, sigmaz>>,
      <<sigmaz, scalar1>>, <<scalar1, sigmaz>>, <<wide>>, <<sigmaz, wide>>, <<lowering>> }

ValuesInputs == UNION {[1..k -> {0 - One, 0, One}] : k \in 0..3}

tomoArgs == <<fn, C, p_measured, measurement_bases, values, rho_before, rho_after, expand_basis,
              other, vnaVars, tableVars>>

\* A_list = []; n = measurement_bases[0].shape[0]
QstFirstShape ==
    /\ fn = "qubit_state_tomography" /\ pc = "L14"
    /\ IF Len(measurement_bases) = 0
       THEN Raise("IndexError", "list index out of range") /\ n' = n
       ELSE n' = Shape(measurement_bases[1])[1] /\ pc' = "L16" /\ exc' = exc
    /\ UNCHANGED <<tomoArgs, stdout, prob, solve_calls, result, value, ret, A, Y, N, n_basis>>

\* Mutant: only the first operator's shape is compared with (n, n).
AllSquareFirstOnly(bases, k) == Shape(bases[1]) = <<k, k>>

\* assert np.all([x.shape == (n, n) for x in measurement_bases]), "..."
AllSquare(bases, k) == \A i \in 1..Len(bases) : Shape(bases[i]) = <<k, k>>

QstCheckShapes ==
    /\ fn = "qubit_state_tomography" /\ pc = "L16"
    /\ IF AllSquare(measurement_bases, n)
       THEN pc' = "L19" /\ exc' = exc
       ELSE Raise("AssertionError", "measurement_basis must be square matrix")
    /\ UNCHANGED <<tomoArgs, n, stdout, prob, solve_calls, result, value, ret, A, Y, N, n_basis>>

\* assert len(values) == len(measurement_bases), "..."
SameCount(vs, bases) == Len(vs) = Len(bases)

QstCheckCount ==
    /\ fn = "qubit_state_tomography" /\ pc = "L19"
    /\ IF SameCount(values, measurement_bases)
       THEN pc' = "L23" /\ exc' = exc
       ELSE Raise("AssertionError",
                  "length of measurement value must equales to length of measurement bases")
    /\ UNCHANGED <<tomoArgs, n, stdout, prob, solve_calls, result, value, ret, A, Y, N, n_basis>>

\* for mb in measurement_bases: A_list.append(np.reshape(mb, (n * n,), "F"))
\* A = np.array(A_list)
DesignMatrix(bases) == [i \in 1..Len(bases) |-> VecF(bases[i])]

QstDesign ==
    /\ fn = "qubit_state_tomography" /\ pc = "L23"
    /\ A' = DesignMatrix(measurement_bases)
    /\ pc' = "L28"
    /\ UNCHANGED <<tomoArgs, n, stdout, prob, solve_calls, result, value, ret, exc, Y, N, n_basis>>

\* rho = cpy.Variable((n, n), hermitian=True); rho_vec = cpy.vec(rho, "F")
\* obj = cpy.Minimize(cpy.sum_squares(cpy.real(A @ rho_vec - values)))
\* constrains = [cpy.trace(rho) == 1, rho >> 0]; prob = cpy.Problem(obj, constrains)
\* Mutant: the trace constraint is left out.
QstConstraintsNoTrace == {"X >> 0"}

QstConstraints == {"trace(X) == 1", "X >> 0"}

\* Mutant: the residual is squared without cpy.real.
QstProblemComplex(M, vs, k) ==
    [var |-> "hermitian", n |-> k, A |-> M, b |-> [i \in 1..Len(vs) |-> <<vs[i], 0>>],
     objective |-> "sum_squares(A @ vec(X) - b)", constraints |-> QstConstraints]

QstProblem(M, vs, k) ==
    [var |-> "hermitian", n |-> k, A |-> M, b |-> [i \in 1..Len(vs) |-> <<vs[i], 0>>],
     objective |-> "sum_squares(real(A @ vec(X) - b))", constraints |-> QstConstraints]

QstFormulate ==
    /\ fn = "qubit_state_tomography" /\ pc = "L28"
    /\ prob' = QstProblem(A, values, n)
    /\ pc' = "L38"
    /\ UNCHANGED <<tomoArgs, n, stdout, solve_calls, result, value, ret, exc, A, Y, N, n_basis>>

\* res = prob.solve(); print(res)
QstSolve ==
    /\ fn = "qubit_state_tomography" /\ pc = "L38"
    /\ solve_calls' = solve_calls + 1
    /\ \E x \in Minimisers(prob) :
          /\ value' = x
          /\ result' = Objective(prob, x)
    /\ stdout' = Append(stdout, "{res}")
    /\ pc' = "L41"
    /\ UNCHANGED <<tomoArgs, n, prob, ret, exc, A, Y, N, n_basis>>

QstSolveError ==
    /\ fn = "qubit_state_tomography" /\ pc = "L38"
    /\ solve_calls' = solve_calls + 1
    /\ Raise("SolverError", "Solver failed.")
    /\ UNCHANGED <<tomoArgs, n, stdout, prob, result, value, ret, A, Y, N, n_basis>>

\* return rho.value
QstReturn ==
    /\ fn = "qubit_state_tomography" /\ pc = "L41"
    /\ ret' = [value |-> value]
    /\ pc' = "returned"
    /\ UNCHANGED <<tomoArgs, n, stdout, prob, solve_calls, result, value, exc, A, Y, N, n_basis>>

(***************************************************************************)
(* process_tomography(rho_before, rho_after, expand_basis)                 *)
(* An array is [shape, data] as np.asarray gives it.  States have entries  *)
(* in units of 1e-6; the expansion operators have Gaussian-integer entries *)
(* in units of 1.                                                          *)
(***************************************************************************)
H == One \div 2

ket0 == << <<R(1), R(0)>>, <<R(0), R(0)>> >>
ket1 == << <<R(0), R(0)>>, <<R(0), R(1)>> >>
plus == << <<<<H, 0>>, <<H, 0>>>>, <<<<H, 0>>, <<H, 0>>>> >>
plusi == << <<<<H, 0>>, <<0, 0 - H>>>>, <<<<0, H>>, <<H, 0>>>> >>

\* np.asarray of a sequence of equally shaped matrices
Stack(ms) == [shape |-> <<Len(ms), Len(ms[1]), Len(ms[1][1])>>, data |-> ms]
\* np.asarray of a single matrix
Single(m) == [shape |-> <<Len(m), Len(m[1])>>, data |-> m]

half1 == << << <<H, 0>> >> >>

RhoInputs ==
    { Stack(<<ket0, plus>>), Stack(<<ket1, plus>>), Stack(<<ket0, plus, plusi>>),
      Stack(<<ket0, ket1, plus, plusi>>),
      Stack(<<plusi>>), Stack(<<scalar1>>), Stack(<<half1>>), Stack(<<scalar1, scalar1>>),
      Stack(<<wide>>), Single(ket0) }

G(x, y) == <<x, y>>
eye2 == << <<G(1, 0), G(0, 0)>>, <<G(0, 0), G(1, 0)>> >>
paulix == << <<G(0, 0), G(1, 0)>>, <<G(1, 0), G(0, 0)>> >>
pauliy == << <<G(0, 0), G(0, -1)>>, <<G(0, 1), G(0, 0)>> >>
pauliz == << <<G(1, 0), G(0, 0)>>, <<G(0, 0), G(-1, 0)>> >>
eye1 == << <<G(1, 0)>> >>

BasisInputs ==
    { Stack(<<eye2, paulix, pauliy, pauliz>>), Stack(<<eye2, paulix, pauliz>>),
      Stack(<<eye1>>), Stack(<<eye1, eye1>>) }

\* rho_before = np.asarray(rho_before); ...; assert rho_before.ndim == 3
Ndim(a) == Len(a.shape)

PtCheckNdim ==
    /\ fn = "process_tomography" /\ pc = "L49"
    /\ IF Ndim(rho_before) = 3
       THEN pc' = "L55" /\ exc' = exc
       ELSE Raise("AssertionError", "")
    /\ UNCHANGED <<tomoArgs, n, stdout, prob, solve_calls, result, value, ret, A, Y, N, n_basis>>

\* Mutant: only the number of samples is compared.
SameCountOnly(a, b) == a.shape[1] = b.shape[1]

\* assert rho_before.shape == rho_after.shape
SameShape(a, b) == a.shape = b.shape

PtCheckSameShape ==
    /\ fn = "process_tomography" /\ pc = "L55"
    /\ IF SameShape(rho_before, rho_after)
       THEN pc' = "L57" /\ exc' = exc
       ELSE Raise("AssertionError", "")
    /\ UNCHANGED <<tomoArgs, n, stdout, prob, solve_calls, result, value, ret, A, Y, N, n_basis>>

\* assert rho_before.shape[1] == rho_before.shape[2]
SquareStack(a) == a.shape[2] = a.shape[3]

PtCheckSquare ==
    /\ fn = "process_tomography" /\ pc = "L57"
    /\ IF SquareStack(rho_before)
       THEN pc' = "L59" /\ exc' = exc
       ELSE Raise("AssertionError", "")
    /\ UNCHANGED <<tomoArgs, n, stdout, prob, solve_calls, result, value, ret, A, Y, N, n_basis>>

\* n_basis = rho_before.shape[0]; N = rho_before.shape[1]
\* assert len(expand_basis) == N**2
BasisCountOk(basis, k) == basis.shape[1] = k * k

PtCheckBasisCount ==
    /\ fn = "process_tomography" /\ pc = "L59"
    /\ n_basis' = rho_before.shape[1]
    /\ N' = rho_before.shape[2]
    /\ IF BasisCountOk(expand_basis, N')
       THEN pc' = "L64" /\ exc' = exc
       ELSE Raise("AssertionError", "")
    /\ UNCHANGED <<tomoArgs, n, stdout, prob, solve_calls, result, value, ret, A, Y>>

\* _tensor_bases = np.einsum("mab, lbc, ncd -> lmnad", expand_basis, rho_before,
\*                           expand_basis.conj().swapaxes(-1, -2))
Contracted(basis, before, l, m, k) ==
    MatMul(MatMul(basis.data[m], before.data[l]), Dagger(basis.data[k]))

\* An n-dimensional array is held as [shape, flat]: flat lists the entries in
\* the order that runs the first index fastest (order "F"), and index tuples
\* are 0-based.
RECURSIVE LinearF(_, _)
LinearF(t, sh) == IF Len(sh) = 0 THEN 0 ELSE t[1] + sh[1] * LinearF(Tail(t), Tail(sh))

RECURSIVE UnravelF(_, _)
UnravelF(q, sh) ==
    IF Len(sh) = 0 THEN <<>> ELSE <<q % sh[1]>> \o UnravelF(q \div sh[1], Tail(sh))

\* the same for the order that runs the last index fastest (order "C")
RECURSIVE LinearC(_, _)
LinearC(t, sh) ==
    IF Len(sh) = 0 THEN 0
    ELSE t[Len(sh)] + sh[Len(sh)] * LinearC(SubSeq(t, 1, Len(sh) - 1), SubSeq(sh, 1, Len(sh) - 1))

RECURSIVE UnravelC(_, _)
UnravelC(q, sh) ==
    IF Len(sh) = 0 THEN <<>>
    ELSE UnravelC(q \div sh[Len(sh)], SubSeq(sh, 1, Len(sh) - 1)) \o <<q % sh[Len(sh)]>>

\* Mutant: the reshape reads and writes in row-major order (order="C").
ReshapeC(arr, sh) ==
    [shape |-> sh,
     flat |-> [q \in 1..Len(arr.flat) |->
                  arr.flat[LinearF(UnravelC(LinearC(UnravelF(q - 1, sh), sh), arr.shape),
                                   arr.shape) + 1]]]

\* np.reshape(arr, sh, order="F"): the entries keep their order-"F" positions
ReshapeF(arr, sh) == [shape |-> sh, flat |-> arr.flat]

\* arr.transpose(perm): axis i of the result is axis perm[i] of arr (1-based here)
Transpose(arr, perm) ==
    LET sh == [i \in 1..Len(perm) |-> arr.shape[perm[i]]]
    IN  [shape |-> sh,
         flat |-> [q \in 1..Len(arr.flat) |->
                      LET t == UnravelF(q - 1, sh)
                          u == [a \in 1..Len(perm) |->
                                   t[CHOOSE i \in 1..Len(perm) : perm[i] = a]]
                      IN  arr.flat[LinearF(u, arr.shape) + 1]]]

\* the einsum result, indexed [l, m, n, a, d]
Einsum(basis, before, k, dim) ==
    LET sh == <<k, dim * dim, dim * dim, dim, dim>>
    IN  [shape |-> sh,
         flat |-> [q \in 1..(k * dim * dim * dim * dim * dim * dim) |->
                      LET t == UnravelF(q - 1, sh)
                      IN  Contracted(basis, before, t[1] + 1, t[2] + 1, t[3] + 1)
                              [t[4] + 1][t[5] + 1]]]

\* _tensor_bases = np.reshape(_tensor_bases, (n_basis, N**2, N**2, -1), order="F")
\*                   .transpose((0, 3, 1, 2))
\* A = np.reshape(_tensor_bases, (n_basis * N**2, -1), order="F")
ProcessDesign(basis, before, k, dim) ==
    LET T4 == ReshapeF(Einsum(basis, before, k, dim), <<k, dim * dim, dim * dim, dim * dim>>)
        U == Transpose(T4, <<1, 4, 2, 3>>)
        M == ReshapeF(U, <<k * dim * dim, dim * dim * dim * dim>>)
    IN  [row \in 1..(k * dim * dim) |->
            [col \in 1..(dim * dim * dim * dim) |->
                M.flat[LinearF(<<row - 1, col - 1>>, M.shape) + 1]]]

\* Mutant: the two matrix axes of rho_after are flattened in the other order.
ProcessTargetTransposed(after, k, dim) ==
    [row \in 1..(k * dim * dim) |->
        LET l == (row - 1) % k
            q == (row - 1) \div k
        IN  after.data[l + 1][(q \div dim) + 1][(q % dim) + 1]]

\* Y = np.reshape(rho_after, (-1,), order="F"): entry [l, a, d] at l + k*(a + N*d)
ProcessTarget(after, k, dim) ==
    [row \in 1..(k * dim * dim) |->
        LET l == (row - 1) % k
            q == (row - 1) \div k
        IN  after.data[l + 1][(q % dim) + 1][(q \div dim) + 1]]

PtDesign ==
    /\ fn = "process_tomography" /\ pc = "L64"
    /\ A' = ProcessDesign(expand_basis, rho_before, n_basis, N)
    /\ Y' = ProcessTarget(rho_after, n_basis, N)
    /\ pc' = "L77"
    /\ UNCHANGED <<tomoArgs, n, stdout, prob, solve_calls, result, value, ret, exc, N, n_basis>>

\* chi = cpy.Variable((N**2, N**2), hermitian=True)
\* obj = cpy.Minimize(cpy.sum_squares(A @ cpy.vec(chi, order="F") - Y))
\* constrains = [chi >> 0]; prob = cpy.Problem(obj, constrains)
\* Mutant: a trace normalisation is imposed as well.
PtConstraintsWithTrace == {"X >> 0", "trace(X) == 1"}

PtConstraints == {"X >> 0"}

\* Mutant: the residual goes through cpy.real before it is squared.
PtProblemReal(M, y, dim) ==
    [var |-> "hermitian", n |-> dim * dim, A |-> M, b |-> y,
     objective |-> "sum_squares(real(A @ vec(X) - b))", constraints |-> PtConstraints]

PtProblem(M, y, dim) ==
    [var |-> "hermitian", n |-> dim * dim, A |-> M, b |-> y,
     objective |-> "sum_squares(A @ vec(X) - b)", constraints |-> PtConstraints]

PtFormulate ==
    /\ fn = "process_tomography" /\ pc = "L77"
    /\ prob' = PtProblem(A, Y, N)
    /\ pc' = "L86"
    /\ UNCHANGED <<tomoArgs, n, stdout, solve_calls, result, value, ret, exc, A, Y, N, n_basis>>

\* res = prob.solve(); print(res)
PtSolve ==
    /\ fn = "process_tomography" /\ pc = "L86"
    /\ solve_calls' = solve_calls + 1
    /\ \E x \in Minimisers(prob) :
          /\ value' = x
          /\ result' = Objective(prob, x)
    /\ stdout' = Append(stdout, "{res}")
    /\ pc' = "L89"
    /\ UNCHANGED <<tomoArgs, n, prob, ret, exc, A, Y, N, n_basis>>

PtSolveError ==
    /\ fn = "process_tomography" /\ pc = "L86"
    /\ solve_calls' = solve_calls + 1
    /\ Raise("SolverError", "Solver failed.")
    /\ UNCHANGED <<tomoArgs, n, stdout, prob, result, value, ret, A, Y, N, n_basis>>

\* return chi.value
PtReturn ==
    /\ fn = "process_tomography" /\ pc = "L89"
    /\ ret' = [value |-> value]
    /\ pc' = "returned"
    /\ UNCHANGED <<tomoArgs, n, stdout, prob, solve_calls, result, value, exc, A, Y, N, n_basis>>

(***************************************************************************)
(* prob.solve() when the backend reports that it reached no optimal point. *)
(* cvxpy raises SolverError only for an error status; for the statuses     *)
(* infeasible and unbounded solve() returns normally with inf or -inf and  *)
(* leaves the variable's .value None.  None of the three routines reads    *)
(* prob.status, so the statement after solve() runs next.                  *)
(***************************************************************************)
FailureStatuses == {"infeasible", "unbounded"}

\* the value of solve() for a minimisation that ended with status st
SolveValue(st) == IF st = "infeasible" THEN <<"inf">> ELSE <<"-inf">>

DeconfSolveNotOptimal ==
    /\ fn = "deconfusion" /\ pc = "L33"
    /\ solve_calls' = solve_calls + 1
    /\ \E st \in FailureStatuses : result' = SolveValue(st)
    /\ value' = None
    /\ pc' = "L36"
    /\ UNCHANGED <<tomoVars, fn, C, p_measured, n, stdout, prob, ret, exc>>

QstSolveNotOptimal ==
    /\ fn = "qubit_state_tomography" /\ pc = "L38"
    /\ solve_calls' = solve_calls + 1
    /\ \E st \in FailureStatuses : result' = SolveValue(st)
    /\ value' = None
    /\ stdout' = Append(stdout, "{res}")
    /\ pc' = "L41"
    /\ UNCHANGED <<tomoArgs, n, prob, ret, exc, A, Y, N, n_basis>>

PtSolveNotOptimal ==
    /\ fn = "process_tomography" /\ pc = "L86"
    /\ solve_calls' = solve_calls + 1
    /\ \E st \in FailureStatuses : result' = SolveValue(st)
    /\ value' = None
    /\ stdout' = Append(stdout, "{res}")
    /\ pc' = "L89"
    /\ UNCHANGED <<tomoArgs, n, prob, ret, exc, A, Y, N, n_basis>>

(***************************************************************************)
(* The specification: one call of one of the three routines.               *)
(***************************************************************************)
InitLocals ==
    /\ n = 0
    /\ stdout = <<>>
    /\ prob = Unset
    /\ solve_calls = 0
    /\ result = Unset
    /\ value = Unset
    /\ ret = Unset
    /\ exc = Unset
    /\ A = Unset
    /\ Y = Unset
    /\ N = 0
    /\ n_basis = 0

InitDeconfusion ==
    /\ fn = "deconfusion"
    /\ pc = "L14"
    /\ C \in CInputs
    /\ p_measured \in PInputs
    /\ measurement_bases = Unset /\ values = Unset
    /\ rho_before = Unset /\ rho_after = Unset /\ expand_basis = Unset
    /\ InitLocals

InitStateTomography ==
    /\ fn = "qubit_state_tomography"
    /\ pc = "L14"
    /\ measurement_bases \in BasesInputs
    /\ values \in ValuesInputs
    /\ C = Unset /\ p_measured = Unset
    /\ rho_before = Unset /\ rho_after = Unset /\ expand_basis = Unset
    /\ InitLocals

InitProcessTomography ==
    /\ fn = "process_tomography"
    /\ pc = "L49"
    /\ rho_before \in RhoInputs
    /\ rho_after \in RhoInputs
    /\ expand_basis \in BasisInputs
    /\ C = Unset /\ p_measured = Unset
    /\ measurement_bases = Unset /\ values = Unset
    /\ InitLocals

InitCall == InitDeconfusion \/ InitStateTomography \/ InitProcessTomography

\* no instrument driver and no table widget was constructed
NoInstrument ==
    /\ driver = "" /\ trace = 0 /\ cont = FALSE /\ averaging = FALSE /\ defined = {}
    /\ prev_cont = FALSE /\ s_list = <<>> /\ results = <<>> /\ cont_before = FALSE

NoTable ==
    /\ rows = <<>> /\ row_key = "" /\ on_change = FALSE /\ selected_index = 0
    /\ emitted = <<>> /\ table_selected = <<>> /\ table_rows = <<>>
    /\ table_shares_rows = FALSE /\ arg = <<>>

Init == InitCall /\ other = Unset /\ NoInstrument /\ NoTable

Next ==
    \/ DeconfCheckSquare
    \/ DeconfCheckLength
    \/ DeconfCheckStochastic
    \/ DeconfCondition
    \/ DeconfFormulate
    \/ DeconfSolve
    \/ DeconfSolveError
    \/ DeconfReturn
    \/ QstFirstShape
    \/ QstCheckShapes
    \/ QstCheckCount
    \/ QstDesign
    \/ QstFormulate
    \/ QstSolve
    \/ QstSolveError
    \/ QstReturn
    \/ PtCheckNdim
    \/ PtCheckSameShape
    \/ PtCheckSquare
    \/ PtCheckBasisCount
    \/ PtDesign
    \/ PtFormulate
    \/ PtSolve
    \/ PtSolveError
    \/ PtReturn

Spec == Init /\ [][Next]_vars

\* The same call with a backend that may also report infeasible or unbounded.
NextBackendFailure ==
    \/ Next
    \/ DeconfSolveNotOptimal
    \/ QstSolveNotOptimal
    \/ PtSolveNotOptimal

SpecBackendFailure == Init /\ [][NextBackendFailure]_vars

(***************************************************************************)
(* Two calls in progress at once (two threads, no lock).  The arguments    *)
(* and locals of a call live in its own frame; the modules define no       *)
(* module-level variable, so the only thing the two calls share is the     *)
(* console.  The variables hold the frame of the call that is running,     *)
(* `other` the frame of the call that is not; a context switch can happen  *)
(* between any two statements.                                             *)
(***************************************************************************)
Frame ==
    [id |-> 3 - other.id, fn |-> fn, pc |-> pc, C |-> C, p_measured |-> p_measured, n |-> n,
     prob |-> prob, solve_calls |-> solve_calls, result |-> result, value |-> value,
     ret |-> ret, exc |-> exc, measurement_bases |-> measurement_bases, values |-> values,
     rho_before |-> rho_before, rho_after |-> rho_after, expand_basis |-> expand_basis,
     A |-> A, Y |-> Y, N |-> N, n_basis |-> n_basis]

\* Mutant: prob is a module-level variable, shared by the two calls.
SwitchSharedProblem ==
    /\ other # Unset
    /\ other' = [Frame EXCEPT !.prob = other.prob]
    /\ fn' = other.fn /\ pc' = other.pc
    /\ C' = other.C /\ p_measured' = other.p_measured /\ n' = other.n
    /\ prob' = prob /\ solve_calls' = other.solve_calls
    /\ result' = other.result /\ value' = other.value
    /\ ret' = other.ret /\ exc' = other.exc
    /\ measurement_bases' = other.measurement_bases /\ values' = other.values
    /\ rho_before' = other.rho_before /\ rho_after' = other.rho_after
    /\ expand_basis' = other.expand_basis
    /\ A' = other.A /\ Y' = other.Y /\ N' = other.N /\ n_basis' = other.n_basis
    /\ UNCHANGED <<stdout, vnaVars, tableVars>>

Switch ==
    /\ other # Unset
    /\ other' = Frame
    /\ fn' = other.fn /\ pc' = other.pc
    /\ C' = other.C /\ p_measured' = other.p_measured /\ n' = other.n
    /\ prob' = other.prob /\ solve_calls' = other.solve_calls
    /\ result' = other.result /\ value' = other.value
    /\ ret' = other.ret /\ exc' = other.exc
    /\ measurement_bases' = other.measurement_bases /\ values' = other.values
    /\ rho_before' = other.rho_before /\ rho_after' = other.rho_after
    /\ expand_basis' = other.expand_basis
    /\ A' = other.A /\ Y' = other.Y /\ N' = other.N /\ n_basis' = other.n_basis
    /\ UNCHANGED <<stdout, vnaVars, tableVars>>

\* the frame of a call at its entry
EntryFrame ==
    [id |-> 2, fn |-> "", pc |-> "", C |-> Unset, p_measured |-> Unset, n |-> 0,
     prob |-> Unset, solve_calls |-> 0, result |-> Unset, value |-> Unset,
     ret |-> Unset, exc |-> Unset, measurement_bases |-> Unset, values |-> Unset,
     rho_before |-> Unset, rho_after |-> Unset, expand_basis |-> Unset,
     A |-> Unset, Y |-> Unset, N |-> 0, n_basis |-> 0]

\* the arguments of the calls that are run two at a time
TwoCallCs ==
    { << <<950000, 50000>>, <<50000, 950000>> >>, << <<900000, 910000>>, <<100000, 90000>> >> }
TwoCallPs == {<<400000, 600000>>, <<1000000, 0>>}
TwoCallBases == {<<sigmaz>>, <<sigmax, sigmay, sigmaz>>, <<sigmaz, scalar1>>}
TwoCallValues == {<<One>>, <<0, One, 0>>, <<0, 0>>}
TwoCallRhos == {Stack(<<scalar1>>), Stack(<<half1>>), Stack(<<scalar1, scalar1>>)}
TwoCallExpansions == {Stack(<<eye1>>), Stack(<<eye2, paulix, pauliy, pauliz>>)}

InitRunning ==
    /\ InitCall
    /\ fn = "deconfusion" => (C \in TwoCallCs /\ p_measured \in TwoCallPs)
    /\ fn = "qubit_state_tomography" =>
          (measurement_bases \in TwoCallBases /\ values \in TwoCallValues)
    /\ fn = "process_tomography" =>
          /\ rho_before \in TwoCallRhos /\ rho_after \in TwoCallRhos
          /\ expand_basis \in TwoCallExpansions

InitOther ==
    \/ \E c \in TwoCallCs, v \in TwoCallPs :
          other = [EntryFrame EXCEPT !.fn = "deconfusion", !.pc = "L14",
                                     !.C = c, !.p_measured = v]
    \/ \E b \in TwoCallBases, v \in TwoCallValues :
          other = [EntryFrame EXCEPT !.fn = "qubit_state_tomography", !.pc = "L14",
                                     !.measurement_bases = b, !.values = v]
    \/ \E b \in TwoCallRhos, a \in TwoCallRhos, e \in TwoCallExpansions :
          other = [EntryFrame EXCEPT !.fn = "process_tomography", !.pc = "L49",
                                     !.rho_before = b, !.rho_after = a, !.expand_basis = e]

InitConcurrent == InitRunning /\ InitOther /\ NoInstrument /\ NoTable

NextConcurrent ==
    \/ Next
    \/ Switch

SpecConcurrent == InitConcurrent /\ [][NextConcurrent]_vars

(***************************************************************************)
(* labkit.drivers: the network-analyser driver, KeysightVNA of             *)
(* new_vna_driver.py and keysight_vna of KeysightVNA.py (with its QCoDeS   *)
(* wrapper).  The instrument is what the SCPI commands of the code make of *)
(* it: INIT:CONT and SENS:AVER are the last value written, the defined     *)
(* measurements are those of CALCulate1:PARameter:DEFine since the last    *)
(* preset.  A measurement read from the instrument is represented by its   *)
(* name.  The two modules differ in average_sweep only.                    *)
(***************************************************************************)
\* self.trace = None
NoTrace == 0
\* get_data prints self.trace; at most MaxPrints lines are printed in a run.
MaxPrints == 2

trace_lookup ==
    ("S11" :> 11) @@ ("S12" :> 12) @@ ("S13" :> 13) @@ ("S14" :> 14) @@
    ("S21" :> 21) @@ ("S22" :> 22) @@ ("S23" :> 23) @@ ("S24" :> 24) @@
    ("S31" :> 31) @@ ("S32" :> 32) @@ ("S33" :> 33) @@ ("S34" :> 34) @@
    ("S41" :> 41) @@ ("S42" :> 42) @@ ("S43" :> 43) @@ ("S44" :> 44) @@
    ("S2141" :> 2141) @@ ("S2143" :> 2143) @@ ("all" :> 4)

\* vals=Enum(...) of the trace parameter
TraceEnum == {"S11", "S21", "S43", "S23", "S41", "S2141", "all", "S2143"}

\* _meas_name(sp)
MySMea(sp) == "MySMea" \o sp

\* plan_map.get(trace, [(1, "S21")]) of set_trace: the S-parameters defined
\* (the window trace each one is fed to is not kept)
SetTracePlan(t) ==
    CASE t = 4 -> <<"S21", "S43", "S41", "S23">>
      [] t \in {41, 42, 43, 44, 21, 22, 23, 24, 11, 12, 13, 14} -> <<"S" \o ToString(t)>>
      [] t = 242 -> <<"S21", "S11", "S12", "S22">>
      [] t = 2141 -> <<"S21", "S41">>
      [] t = 2143 -> <<"S21", "S43">>
      [] OTHER -> <<"S21">>

\* plan_map.get(self.trace, ("S21",)) of average_sweep
SweepPlan(t) ==
    CASE t = 4 -> <<"S21", "S43", "S41", "S23">>
      [] t \in {41, 42, 43, 44, 21, 22, 23, 24, 11, 12, 13, 14} -> <<"S" \o ToString(t)>>
      [] t = 242 -> <<"S21", "S11", "S12", "S22">>
      [] t = 2141 -> <<"S21", "S41">>
      [] t = 2143 -> <<"S21", "S43">>
      [] OTHER -> <<"S21">>

\* The measurements get_data selects and reads for self.trace (get_data,
\* get_data_S2143, get_data_all); none when it falls through to the raise.
GetDataPlan(t) ==
    CASE t \in {11, 12, 13, 14, 21, 22, 23, 24, 31, 32, 33, 34, 41, 42, 43, 44} ->
             <<"MySMeaS" \o ToString(t)>>
      [] t = 2143 -> <<"MySMeaS21", "MySMeaS43">>
      [] t = 4 -> <<"MySMeaS21", "MySMeaS43", "MySMeaS41", "MySMeaS23">>
      [] OTHER -> <<>>

\* no method of the driver is running
Idle == driver # "" /\ pc \in {"idle", "returned", "raised"}

\* vna.trace(x): the parameter validates x against vals, then its set_cmd
\* runs set_trace(trace_lookup.get(x)): preset, INIT:CONT OFF, define and feed
\* the measurements of the plan, self.trace = trace.
TraceParameterSet ==
    /\ Idle
    /\ fn' = "trace"
    /\ \E x \in TraceEnum \cup {"S12"} :
          IF x \notin TraceEnum
          THEN /\ Raise("ValueError", "is not in the Enum")
               /\ ret' = Unset
               /\ UNCHANGED <<trace, cont, averaging, defined>>
          ELSE /\ cont' = FALSE
               /\ averaging' \in BOOLEAN
               /\ defined' = {MySMea(SetTracePlan(trace_lookup[x])[i]) :
                                  i \in DOMAIN SetTracePlan(trace_lookup[x])}
               /\ trace' = trace_lookup[x]
               /\ pc' = "returned" /\ ret' = [value |-> "None"] /\ exc' = Unset
    /\ UNCHANGED <<stdout, driver, prev_cont, s_list, results, cont_before, analysisVars,
                   tableVars>>

\* vna.trigger_continuous(v): INIT:CONT ON / INIT:CONT OFF
TriggerContinuousSet ==
    /\ Idle
    /\ fn' = "trigger_continuous"
    /\ \E v \in BOOLEAN : cont' = v
    /\ pc' = "returned" /\ ret' = [value |-> "None"] /\ exc' = Unset
    /\ UNCHANGED <<stdout, driver, trace, averaging, defined, prev_cont, s_list, results,
                   cont_before, analysisVars, tableVars>>

\* new_vna_driver: SENS:AVER:MODE; the check of self.trace; s_list
AverageSweepEnter ==
    /\ Idle /\ driver = "new_vna_driver"
    /\ fn' = "average_sweep"
    /\ cont_before' = cont
    /\ ret' = Unset
    /\ prev_cont' = FALSE /\ results' = <<>>
    /\ IF trace = NoTrace
       THEN /\ Raise("RuntimeError", "No trace configured. Please call set_trace() first.")
            /\ s_list' = <<>>
       ELSE /\ pc' = "L296" /\ exc' = Unset
            /\ s_list' = SweepPlan(trace)
    /\ UNCHANGED <<stdout, driver, trace, cont, averaging, defined, analysisVars, tableVars>>

\* KeysightVNA.py: keysight_vna defines no ask (nor trigger_continuous,
\* _prepare_avg, _trigger_single, _read_sdata_complex): the first statement
\* of its average_sweep raises.
AverageSweepOld ==
    /\ Idle /\ driver = "KeysightVNA"
    /\ fn' = "average_sweep"
    /\ cont_before' = cont
    /\ ret' = Unset
    /\ Raise("AttributeError", "'keysight_vna' object has no attribute 'ask'")
    /\ UNCHANGED <<stdout, driver, trace, cont, averaging, defined, prev_cont, s_list, results,
                   analysisVars, tableVars>>

\* prev_cont = bool(int(float(self.ask("INIT:CONT?"))));
\* if prev_cont: self.trigger_continuous(False)
AvSaveCont ==
    /\ fn = "average_sweep" /\ pc = "L296"
    /\ prev_cont' = cont
    /\ cont' = IF cont THEN FALSE ELSE cont
    /\ pc' = "L301"
    /\ UNCHANGED <<fn, stdout, ret, exc, driver, trace, averaging, defined, s_list, results,
                   cont_before, analysisVars, tableVars>>

\* FORMat:DATA; SENS:AVER ON; SENSe:AVERage:COUNt; SENS:AVER:CLE; *OPC?
AvPrepare ==
    /\ fn = "average_sweep" /\ pc = "L301"
    /\ averaging' = TRUE
    /\ pc' = "L313"
    /\ UNCHANGED <<fn, stdout, ret, exc, driver, trace, cont, defined, prev_cont, s_list, results,
                   cont_before, analysisVars, tableVars>>

\* INITiate:IMMediate;*WAI; *OPC?
AvTrigger ==
    /\ fn = "average_sweep" /\ pc = "L313"
    /\ pc' = "L317"
    /\ UNCHANGED <<fn, stdout, ret, exc, analysisVars, vnaVars, tableVars>>

\* SENS:AVER OFF; results = []
AvAveragingOff ==
    /\ fn = "average_sweep" /\ pc = "L317"
    /\ averaging' = FALSE
    /\ results' = <<>>
    /\ pc' = "L320"
    /\ UNCHANGED <<fn, stdout, ret, exc, driver, trace, cont, defined, prev_cont, s_list,
                   cont_before, analysisVars, tableVars>>

\* one turn of `for sp in s_list`: select MySMea{sp}, read its SDATA; the
\* query of a measurement that is not defined gets no answer
AvRead ==
    /\ fn = "average_sweep" /\ pc = "L320"
    /\ Len(results) < Len(s_list)
    /\ IF MySMea(s_list[Len(results) + 1]) \in defined
       THEN /\ results' = Append(results, MySMea(s_list[Len(results) + 1]))
            /\ UNCHANGED <<pc, exc>>
       ELSE /\ Raise("VisaIOError", "VI_ERROR_TMO")
            /\ UNCHANGED results
    /\ UNCHANGED <<fn, stdout, ret, driver, trace, cont, averaging, defined, prev_cont, s_list,
                   cont_before, analysisVars, tableVars>>

\* Mutant: continuous mode is switched on at the end whatever it was.
AvRestoreAlwaysOn ==
    /\ fn = "average_sweep" /\ pc = "L320"
    /\ Len(results) = Len(s_list)
    /\ cont' = TRUE
    /\ ret' = IF Len(results) = 1 THEN [array |-> results[1]] ELSE [tuple |-> results]
    /\ pc' = "returned"
    /\ UNCHANGED <<fn, stdout, exc, driver, trace, averaging, defined, prev_cont, s_list, results,
                   cont_before, analysisVars, tableVars>>

\* if prev_cont: self.trigger_continuous(True);
\* return results[0] if len(results) == 1 else tuple(results)
AvRestore ==
    /\ fn = "average_sweep" /\ pc = "L320"
    /\ Len(results) = Len(s_list)
    /\ cont' = IF prev_cont THEN TRUE ELSE cont
    /\ ret' = IF Len(results) = 1 THEN [array |-> results[1]] ELSE [tuple |-> results]
    /\ pc' = "returned"
    /\ UNCHANGED <<fn, stdout, exc, driver, trace, averaging, defined, prev_cont, s_list, results,
                   cont_before, analysisVars, tableVars>>

\* a write or query of average_sweep times out: pyvisa raises, and the
\* statements after it are not run
AvVisaError ==
    /\ fn = "average_sweep" /\ pc \in {"L296", "L301", "L313", "L317", "L320"}
    /\ Raise("VisaIOError", "VI_ERROR_TMO")
    /\ UNCHANGED <<fn, stdout, ret, analysisVars, vnaVars, tableVars>>

\* get_data(): print(self.trace), then the branch for self.trace
GetData ==
    /\ Idle /\ Len(stdout) < MaxPrints
    /\ fn' = "get_data"
    /\ stdout' = Append(stdout, IF trace = NoTrace THEN "None" ELSE ToString(trace))
    /\ IF GetDataPlan(trace) = <<>>
       THEN /\ Raise("Exception", "Unknown trace: ")
            /\ ret' = Unset
       ELSE IF \E i \in DOMAIN GetDataPlan(trace) : GetDataPlan(trace)[i] \notin defined
       THEN /\ Raise("VisaIOError", "VI_ERROR_TMO")
            /\ ret' = Unset
       ELSE /\ pc' = "returned" /\ exc' = Unset
            /\ ret' = IF Len(GetDataPlan(trace)) = 1
                      THEN [array |-> GetDataPlan(trace)[1]]
                      ELSE [tuple |-> GetDataPlan(trace)]
    /\ UNCHANGED <<analysisVars, vnaVars, tableVars>>

\* no analysis routine was called
NoCall ==
    /\ fn = "" /\ pc = "idle"
    /\ C = Unset /\ p_measured = Unset
    /\ measurement_bases = Unset /\ values = Unset
    /\ rho_before = Unset /\ rho_after = Unset /\ expand_basis = Unset
    /\ n = 0 /\ prob = Unset /\ solve_calls = 0 /\ result = Unset /\ value = Unset
    /\ ret = Unset /\ exc = Unset /\ A = Unset /\ Y = Unset /\ N = 0 /\ n_basis = 0
    /\ other = Unset

\* the driver after __init__: self.trace = None, *RST sent, "Connect OK" printed
InitVNA ==
    /\ NoCall /\ NoTable
    /\ driver \in {"new_vna_driver", "KeysightVNA"}
    /\ trace = NoTrace
    /\ cont \in BOOLEAN /\ averaging \in BOOLEAN
    /\ defined = {}
    /\ prev_cont = FALSE /\ s_list = <<>> /\ results = <<>> /\ cont_before = FALSE
    /\ stdout = <<"vna1 Connect OK">>

NextVNA ==
    \/ TraceParameterSet
    \/ TriggerContinuousSet
    \/ AverageSweepEnter
    \/ AverageSweepOld
    \/ AvSaveCont
    \/ AvPrepare
    \/ AvTrigger
    \/ AvAveragingOff
    \/ AvRead
    \/ AvRestore
    \/ AvVisaError
    \/ GetData

SpecVNA == InitVNA /\ [][NextVNA]_vars

(***************************************************************************)
(* labkit.visualizations: SelectableTable (hello.py).  A row is a record   *)
(* with the fields id and score; selected_index counts from 0 as in the    *)
(* code, so the selected row is rows[selected_index + 1].  Handlers run    *)
(* one at a time on the event loop, so each handler is one action; the     *)
(* calls of the widget (table.update, run_method) succeed.                 *)
(***************************************************************************)
\* rows and new_rows have at most MaxRows rows.
MaxRows == 3

\* the row lists handed to the constructor and to update_rows: not empty,
\* every row has the row_key field (the requirements of the class docstring);
\* ids may repeat, the score of a row is its place in the list
RowsInputs ==
    UNION {{[i \in 1..k |-> [id |-> ids[i], score |-> i]] : ids \in [1..k -> 1..2]} :
               k \in 1..MaxRows}

\* Mutant: the last row with the key value is taken.
LastIndexOf(k, rs) ==
    (CHOOSE i \in DOMAIN rs :
        /\ rs[i][row_key] = k
        /\ \A j \in DOMAIN rs : rs[j][row_key] = k => j <= i) - 1

\* next(i for i, r in enumerate(new_rows) if r[self.row_key] == k)
FirstIndexOf(k, rs) ==
    (CHOOSE i \in DOMAIN rs :
        /\ rs[i][row_key] = k
        /\ \A j \in DOMAIN rs : rs[j][row_key] = k => i <= j) - 1

\* _emit_change(): the calls of on_change it makes when the selection is i in rs
EmitChange(i, rs) == IF on_change THEN << <<i, rs[i + 1]>> >> ELSE <<>>

\* set_selected_index(idx), as a step of the handler that calls it
SetSelectedIndexTo(idx) ==
    LET last == Len(rows) - 1
        low == IF idx < last THEN idx ELSE last
        clamped == IF low > 0 THEN low ELSE 0
    IN  /\ IF clamped # selected_index
           THEN /\ selected_index' = clamped
                /\ table_selected' = <<rows[clamped + 1]>>
                /\ emitted' = EmitChange(clamped, rows)
           ELSE /\ emitted' = <<>>
                /\ UNCHANGED <<selected_index, table_selected>>
        /\ pc' = "returned" /\ ret' = [value |-> "None"] /\ exc' = Unset
        /\ UNCHANGED <<rows, table_rows, table_shares_rows>>

\* no handler of the table is running
TableIdle == row_key # "" /\ pc \in {"idle", "returned", "raised"}

\* a call of set_selected_index with any integer
SetSelectedIndex ==
    /\ TableIdle
    /\ fn' = "set_selected_index"
    /\ \E idx \in (0 - 2)..(MaxRows + 1) :
          /\ arg' = idx
          /\ SetSelectedIndexTo(idx)
    /\ UNCHANGED <<stdout, row_key, on_change, analysisVars, vnaVars>>

\* update_rows(new_rows)
UpdateRows ==
    /\ TableIdle
    /\ fn' = "update_rows"
    /\ ret' = [value |-> "None"]
    /\ \E new_rows \in RowsInputs :
          /\ arg' = new_rows
          /\ IF selected_index >= Len(rows)
             THEN \* old_row = self.get_selected_row()
                  /\ Raise("IndexError", "list index out of range")
                  /\ emitted' = <<>>
                  /\ UNCHANGED <<rows, selected_index, table_selected, table_rows,
                                 table_shares_rows>>
             ELSE /\ rows' = new_rows
                  /\ IF \E i \in DOMAIN new_rows :
                            new_rows[i][row_key] = rows[selected_index + 1][row_key]
                     THEN /\ selected_index' =
                                 FirstIndexOf(rows[selected_index + 1][row_key], new_rows)
                          /\ table_rows' = new_rows
                          /\ table_shares_rows' = FALSE
                          /\ table_selected' = <<new_rows[selected_index' + 1]>>
                          /\ emitted' = EmitChange(selected_index', new_rows)
                          /\ pc' = "returned" /\ exc' = Unset
                     ELSE \* next() finds no row: the lines after it are not run
                          /\ Raise("StopIteration", "")
                          /\ table_rows' = IF table_shares_rows THEN new_rows ELSE table_rows
                          /\ emitted' = <<>>
                          /\ UNCHANGED <<selected_index, table_selected, table_shares_rows>>
    /\ UNCHANGED <<stdout, row_key, on_change, analysisVars, vnaVars>>

\* a click on a row of the widget: ui.table puts the selection in
\* table.selected (none when the selected row is clicked again) and calls
\* _on_select with it
OnSelect ==
    /\ TableIdle
    /\ fn' = "_on_select"
    /\ ret' = [value |-> "None"]
    /\ \E selection \in {<<table_rows[i]>> : i \in DOMAIN table_rows} \cup {<<>>} :
          /\ arg' = selection
          /\ table_selected' = selection
          /\ IF selection = <<>>
             THEN /\ Raise("IndexError", "list index out of range")
                  /\ emitted' = <<>>
                  /\ UNCHANGED selected_index
             ELSE IF \A i \in DOMAIN rows : rows[i] # selection[1]
             THEN /\ Raise("ValueError", "is not in list")
                  /\ emitted' = <<>>
                  /\ UNCHANGED selected_index
             ELSE /\ selected_index' =
                        (CHOOSE i \in DOMAIN rows :
                            /\ rows[i] = selection[1]
                            /\ \A j \in DOMAIN rows : rows[j] = selection[1] => i <= j) - 1
                  /\ emitted' = EmitChange(selected_index', rows)
                  /\ pc' = "returned" /\ exc' = Unset
    /\ UNCHANGED <<stdout, rows, row_key, on_change, table_rows, table_shares_rows,
                   analysisVars, vnaVars>>

\* a keydown event on the container
OnKey ==
    /\ TableIdle
    /\ fn' = "_on_key"
    /\ \E key \in {"ArrowUp", "ArrowDown", "Enter"} :
          /\ arg' = key
          /\ IF key = "ArrowUp" THEN SetSelectedIndexTo(selected_index - 1)
             ELSE IF key = "ArrowDown" THEN SetSelectedIndexTo(selected_index + 1)
             ELSE /\ emitted' = <<>>
                  /\ pc' = "returned" /\ ret' = [value |-> "None"] /\ exc' = Unset
                  /\ UNCHANGED <<rows, selected_index, table_selected, table_rows,
                                 table_shares_rows>>
    /\ UNCHANGED <<stdout, row_key, on_change, analysisVars, vnaVars>>

\* the table after __init__: selected_index = 0, the widget shows self.rows
\* with the first row selected, and _emit_change() has run
InitTable ==
    /\ NoCall /\ NoInstrument
    /\ stdout = <<>>
    /\ rows \in RowsInputs
    /\ row_key \in {"id", "score"}
    /\ on_change \in BOOLEAN
    /\ selected_index = 0
    /\ emitted = EmitChange(0, rows)
    /\ table_selected = <<rows[1]>>
    /\ table_rows = rows
    /\ table_shares_rows = TRUE
    /\ arg = <<>>

NextTable ==
    \/ SetSelectedIndex
    \/ UpdateRows
    \/ OnSelect
    \/ OnKey

SpecTable == InitTable /\ [][NextTable]_vars

(***************************************************************************)
(* Claims about validation order (all three routines).                     *)
(***************************************************************************)
InvalidDeconfusion ==
    \/ Len(C) # Len(C[1])
    \/ Len(p_measured) # Len(C)
    \/ \E j \in 1..Len(C[1]) :
          ~(Abs(SumTo([i \in 1..Len(C) |-> C[i][j]], Len(C)) - One)
               <= atol + One \div rtol_inv)

InvalidStateTomography ==
    \/ Len(measurement_bases) = 0
    \/ \E i \in 1..Len(measurement_bases) :
          \/ Len(measurement_bases[i]) # Len(measurement_bases[1])
          \/ Len(measurement_bases[i][1]) # Len(measurement_bases[1])
    \/ Len(values) # Len(measurement_bases)

InvalidProcessTomography ==
    \/ Len(rho_before.shape) # 3
    \/ rho_before.shape # rho_after.shape
    \/ rho_before.shape[2] # rho_before.shape[3]
    \/ expand_basis.shape[1] # rho_before.shape[2] * rho_before.shape[2]

InvalidInput ==
    CASE fn = "deconfusion" -> InvalidDeconfusion
      [] fn = "qubit_state_tomography" -> InvalidStateTomography
      [] fn = "process_tomography" -> InvalidProcessTomography

\* Positions at which a validation check is still to be made.
ValidationPositions ==
    CASE fn = "deconfusion" -> {"L14", "L17", "L19"}
      [] fn = "qubit_state_tomography" -> {"L14", "L16", "L19"}
      [] fn = "process_tomography" -> {"L49", "L55", "L57", "L59"}

\* C1: fail fast.  In each of the three routines every validation check comes
\* before the backend's solve: a call whose input violates a validation rule
\* never leaves the validation statements except by raising, never formulates
\* a problem, never invokes the backend and returns nothing; and whenever the
\* backend has been invoked no check is left to be made.
C1_FailFast ==
    /\ InvalidInput =>
          /\ pc \in ValidationPositions \cup {"raised"}
          /\ pc = "raised" => exc.type \in {"AssertionError", "IndexError"}
          /\ solve_calls = 0
          /\ prob = Unset
          /\ ret = Unset
    /\ solve_calls > 0 => pc \notin ValidationPositions

C1_Witness ==
    /\ fn = "process_tomography" /\ pc = "raised"
    /\ Len(rho_before.shape) = 3
    /\ rho_before.shape = rho_after.shape
    /\ rho_before.shape[2] = 2 /\ rho_before.shape[3] = 2
    /\ expand_basis.shape[1] = 3
    /\ solve_calls = 0

(***************************************************************************)
(* Claims about deconfusion.                                               *)
(***************************************************************************)
InDeconfusion == fn = "deconfusion"

\* The call got past the three assertions.
PastValidation ==
    \/ pc \in {"L21", "L26", "L33", "L36", "returned"}
    \/ pc = "raised" /\ exc.type = "SolverError"

\* The call got past the conditioning diagnostic.
PastDiagnostic ==
    \/ pc \in {"L26", "L33", "L36", "returned"}
    \/ pc = "raised" /\ exc.type = "SolverError"

NotSquare == Len(C) # Len(C[1])
WrongLength == Len(p_measured) # Len(C)

\* Some column of C misses 1 by more than tol (in 1e-6).
ColumnOff(tol) ==
    \E j \in 1..Len(C[1]) :
        Abs(SumTo([i \in 1..Len(C) |-> C[i][j]], Len(C)) - One) > tol

\* v (numerators over Grid) is a point of the probability simplex.
OnSimplex(v) ==
    /\ \A i \in DOMAIN v : 0 <= v[i] /\ v[i] <= Grid
    /\ SumTo(v, Len(v)) = Grid

IdentityC == \A i \in 1..Len(C) : \A j \in 1..Len(C[1]) : C[i][j] = IF i = j THEN One ELSE 0

IllExample == << <<900000, 910000>>, <<100000, 90000>> >>
WellExample == << <<950000, 50000>>, <<50000, 950000>> >>
\* singular values 1 and 0.1: condition number exactly 10
TenExample == << <<550000, 450000>>, <<450000, 550000>> >>

\* C2 (as stated): a non-square C or a p_measured of the wrong length makes
\* deconfusion fail with the typed error ShapeError, and nothing is returned.
C2_Original ==
    (InDeconfusion /\ (NotSquare \/ WrongLength)) =>
        /\ pc \in {"L14", "L17", "raised"}
        /\ pc = "raised" => exc.type = "ShapeError"
        /\ ret = Unset

\* C2 (amended): a non-square C or a p_measured whose shape is not (n,) makes
\* deconfusion fail with Python's AssertionError (message "C must be square
\* matrix", respectively "p.shape must be coordinate with C"); the call never
\* gets past these two assertions, never invokes the backend and returns nothing.
C2_ShapeAssertionError ==
    (InDeconfusion /\ (NotSquare \/ WrongLength)) =>
        /\ pc \in {"L14", "L17", "raised"}
        /\ pc = "L17" => ~NotSquare
        /\ pc = "raised" =>
              /\ exc.type = "AssertionError"
              /\ exc.msg = IF NotSquare THEN "C must be square matrix"
                           ELSE "p.shape must be coordinate with C"
        /\ ret = Unset
        /\ solve_calls = 0

C2_Witness ==
    /\ InDeconfusion /\ pc = "raised"
    /\ ~NotSquare /\ WrongLength
    /\ exc.msg = "p.shape must be coordinate with C"

\* C3 (as stated): a C of the right shape with a column that does not sum to 1
\* within tolerance makes deconfusion fail with the typed error ConstraintError.
C3_Original ==
    (InDeconfusion /\ ~NotSquare /\ ~WrongLength /\ ColumnOff(atol + One \div rtol_inv)) =>
        /\ pc \in {"L14", "L17", "L19", "raised"}
        /\ pc = "raised" => exc.type = "ConstraintError"
        /\ ret = Unset

\* C3 (amended): a C of the right shape with a column that does not sum to 1
\* within np.allclose's tolerance makes deconfusion fail with AssertionError
\* (the same exception type as the shape failures, told apart only by its
\* message "C must be column-wise stochastic matrix"); C is never modified
\* and nothing is returned.
C3_StochasticAssertionError ==
    /\ [](
        (InDeconfusion /\ ~NotSquare /\ ~WrongLength /\ ColumnOff(atol + One \div rtol_inv)) =>
            /\ pc \in {"L14", "L17", "L19", "raised"}
            /\ pc = "raised" =>
                  /\ exc.type = "AssertionError"
                  /\ exc.msg = "C must be column-wise stochastic matrix"
            /\ ret = Unset
            /\ solve_calls = 0)
    /\ [][C' = C]_vars

C3_Witness ==
    /\ InDeconfusion /\ pc = "raised"
    /\ ~NotSquare /\ ~WrongLength /\ ColumnOff(atol + One \div rtol_inv)
    /\ exc.msg = "C must be column-wise stochastic matrix"

\* C4 (as stated): C passes the stochastic-column check if and only if every
\* column sum s satisfies |s - 1| <= 1e-6.
C4_Original ==
    (InDeconfusion /\ ~NotSquare /\ ~WrongLength) =>
        /\ PastValidation => ~ColumnOff(atol)
        /\ (pc = "raised" /\ exc.type = "AssertionError") => ColumnOff(atol)

\* C5: the p deconfusion returns lies on the probability simplex:
\* 0 <= p_i <= 1 for every i and the p_i sum to 1.
C5_ReturnedOnSimplex ==
    (InDeconfusion /\ pc = "returned") =>
        /\ Len(ret.value) = Len(C)
        /\ OnSimplex(ret.value)

\* p_measured = (1, 1) does not sum to 1; the returned p = (1/2, 1/2) does.
C5_Witness ==
    /\ InDeconfusion /\ pc = "returned"
    /\ p_measured = <<One, One>>
    /\ 2 * ret.value[1] = Grid /\ 2 * ret.value[2] = Grid

\* ||C q - p_measured||^2 (times Grid^2) of the point q.
LeastSquaresCost(q) ==
    BigSumTo([i \in 1..Len(C) |->
                LET r == SumTo([j \in 1..Len(q) |-> C[i][j] * q[j]], Len(q))
                             - Grid * p_measured[i]
                IN  BigMul(r, r)], Len(C))

\* C6: the p deconfusion returns is a least-squares minimiser over the simplex:
\* no q of the simplex has ||C q - p_measured||^2 < ||C p - p_measured||^2.
C6_LeastSquaresMinimiser ==
    (InDeconfusion /\ pc = "returned") =>
        \A q \in [1..Len(C) -> 0..Grid] :
            OnSimplex(q) => ~BigLess(LeastSquaresCost(q), LeastSquaresCost(ret.value))

C6_Witness ==
    /\ InDeconfusion /\ pc = "returned"
    /\ C = IllExample /\ p_measured = <<400000, 600000>>
    /\ ret.value = <<Grid, 0>>

\* C7 (as stated): with C the identity, the returned p equals p_measured for
\* every p_measured the routine accepts.
C7_Original ==
    (InDeconfusion /\ pc = "returned" /\ IdentityC) =>
        \A i \in 1..Len(C) : One * ret.value[i] = Grid * p_measured[i]

PMeasuredOnSimplex ==
    /\ \A i \in DOMAIN p_measured : 0 <= p_measured[i] /\ p_measured[i] <= One
    /\ SumTo(p_measured, Len(p_measured)) = One

\* C7 (amended): with C the identity and p_measured a point of the probability
\* simplex, the returned p equals p_measured up to the solver's resolution
\* (exactly, when p_measured is a point the solver can represent).
C7_IdentityOnSimplex ==
    (InDeconfusion /\ pc = "returned" /\ IdentityC /\ PMeasuredOnSimplex) =>
        \A i \in 1..Len(C) :
            /\ Abs(One * ret.value[i] - Grid * p_measured[i]) < One
            /\ (\A k \in 1..Len(C) : (Grid * p_measured[k]) % One = 0)
                  => One * ret.value[i] = Grid * p_measured[i]

C7_Witness ==
    /\ InDeconfusion /\ pc = "returned" /\ IdentityC
    /\ p_measured = <<400000, 600000>>
    /\ One * ret.value[1] = Grid * 400000

\* C8: the conditioning diagnostic flags exactly the C whose condition number
\* is > 10: [[0.9,0.91],[0.1,0.09]] is flagged; [[0.95,0.05],[0.05,0.95]] and
\* a C of condition number exactly 10 are not.  (For 2x2 C the condition
\* number k satisfies k + 1/k = ||C||_F^2 / |det C|, so k > 10 iff
\* 10 ||C||_F^2 > 101 |det C|.)
C8_StrictThreshold ==
    (InDeconfusion /\ PastDiagnostic) =>
        /\ C = IllExample => stdout = ConditionWarning
        /\ C = WellExample => stdout = <<>>
        /\ C = TenExample => stdout = <<>>
        /\ (Len(C) = 1 /\ C[1][1] # 0) => stdout = <<>>
        /\ Len(C) = 2 =>
              LET normsq == BigAdd(BigAdd(BigMul(C[1][1], C[1][1]), BigMul(C[1][2], C[1][2])),
                                   BigAdd(BigMul(C[2][1], C[2][1]), BigMul(C[2][2], C[2][2])))
                  det == BigSub(BigMul(C[1][1], C[2][2]), BigMul(C[1][2], C[2][1]))
                  absdet == IF BigNeg(det) THEN BigSub(BigZero, det) ELSE det
              IN  (stdout # <<>>) <=> BigLess(BigScale(101, absdet), BigScale(10, normsq))

C8_Witness ==
    /\ InDeconfusion /\ pc = "returned"
    /\ C = TenExample /\ stdout = <<>>

\* C9: the warning is not fatal: once it is printed the call still goes on to
\* formulate the same problem, solve it and return a p of the simplex; the
\* only failure left is the backend's own.
C9_WarningNonFatal ==
    (InDeconfusion /\ stdout # <<>>) =>
        /\ PastDiagnostic
        /\ pc \in {"L33", "L36", "returned"} =>
              prob = [var |-> "vector", n |-> Len(C), A |-> C, b |-> p_measured,
                      objective |-> "sum_squares(A @ p - b)",
                      constraints |-> {"0 <= p", "p <= 1", "sum(p) == 1"}]
        /\ pc = "returned" => OnSimplex(ret.value)

C9_Witness ==
    /\ InDeconfusion /\ pc = "returned"
    /\ stdout = ConditionWarning
    /\ OnSimplex(ret.value)

\* C10 (as stated): a successful call returns a result with the four fields
\* value, residual, condition_number and conditioning_class.
C10_Original ==
    (InDeconfusion /\ pc = "returned") =>
        DOMAIN ret = {"value", "residual", "condition_number", "conditioning_class"}

\* C10 (amended): a successful call returns the recovered p alone; the achieved
\* residual sum-of-squares is assigned to the local `result` and dropped, and
\* the conditioning diagnostic exists only as the three printed lines (printed
\* only when the condition number is > 10): neither a condition number nor a
\* conditioning class is returned.
C10_ReturnsValueOnly ==
    (InDeconfusion /\ pc = "returned") =>
        /\ DOMAIN ret = {"value"}
        /\ ret.value = value
        /\ result = LeastSquaresCost(value)
        /\ stdout \in {<<>>, ConditionWarning}

C10_Witness ==
    /\ InDeconfusion /\ pc = "returned"
    /\ stdout = ConditionWarning
    /\ DOMAIN ret = {"value"}
    /\ result # BigZero

(***************************************************************************)
(* Claims about the tomography routines and about the calls as a whole.    *)
(***************************************************************************)
\* a prob.solve() of this call ended without an optimal point
SolveFailed == solve_calls > 0 /\ (pc = "raised" \/ value = None)

\* C11 as stated: when the backend does not reach an optimal point the call
\* ends by propagating a typed solver failure, and no call returns normally
\* with None in place of a result.
C11_Original ==
    /\ (SolveFailed /\ pc \in {"returned", "raised"})
          => (pc = "raised" /\ exc.type \in {"SolverFailure", "SolverError"})
    /\ pc = "returned" => ret.value # None

InStateTomography == fn = "qubit_state_tomography"

\* some operator is not n x n, n the row count of the first operator
SomeNotSquare ==
    \E i \in 1..Len(measurement_bases) :
        \/ Len(measurement_bases[i]) # Len(measurement_bases[1])
        \/ Len(measurement_bases[i][1]) # Len(measurement_bases[1])

CountMismatch == Len(values) # Len(measurement_bases)

\* C12 as stated: qubit_state_tomography fails with the typed error ShapeError
\* unless every operator is n x n and there are as many values as operators,
\* an empty measurement_bases and operators of differing sizes included.
C12_Original ==
    (InStateTomography /\ InvalidStateTomography) =>
        /\ pc \in {"L14", "L16", "L19", "raised"}
        /\ pc = "raised" => exc.type = "ShapeError"
        /\ ret = Unset

\* C12 (amended): qubit_state_tomography fails before any design matrix is
\* built unless every operator is n x n (n the row count of the first one) and
\* len(values) = len(measurement_bases): with IndexError when measurement_bases
\* is empty, otherwise with Python's AssertionError (message "measurement_basis
\* must be square matrix", respectively "length of measurement value must
\* equales to length of measurement bases"); an input that meets both
\* conditions is never rejected by the validation.
C12_ValidationAssertionError ==
    InStateTomography =>
        /\ InvalidStateTomography =>
              /\ pc \in {"L14", "L16", "L19", "raised"}
              /\ pc = "L16" => Len(measurement_bases) > 0
              /\ pc = "L19" => ~SomeNotSquare
              /\ pc = "raised" =>
                    exc = IF Len(measurement_bases) = 0
                            THEN [type |-> "IndexError", msg |-> "list index out of range"]
                          ELSE IF SomeNotSquare
                            THEN [type |-> "AssertionError",
                                  msg |-> "measurement_basis must be square matrix"]
                          ELSE [type |-> "AssertionError",
                                msg |-> "length of measurement value must equales to length of measurement bases"]
              /\ ret = Unset
              /\ solve_calls = 0
        /\ ~InvalidStateTomography =>
              (pc = "raised" => exc.type = "SolverError")

C12_Witness ==
    /\ InStateTomography /\ pc = "raised"
    /\ Len(measurement_bases) > 1
    /\ Len(measurement_bases[2]) # Len(measurement_bases[1])
    /\ exc.type = "AssertionError"

\* X (numerators over MGrid) equals its conjugate transpose
IsHermitian(X) ==
    /\ \A i \in 1..Len(X) : Len(X[i]) = Len(X)
    /\ \A i \in 1..Len(X) : \A j \in 1..Len(X) : X[i][j] = CConj(X[j][i])

\* trace(X) = 1
UnitTrace(X) == SumTo([i \in 1..Len(X) |-> Re(X[i][i])], Len(X)) = MGrid

\* A Hermitian unit-trace X of size 1 or 2 is positive semidefinite exactly
\* when its Bloch vector is no longer than 1 (size 1: always).
InBlochBall(X) ==
    Len(X) = 2 =>
        LET rz == Re(X[1][1]) - Re(X[2][2])
            rx == 2 * Re(X[1][2])
            ry == 2 * Im(X[1][2])
        IN  rx * rx + ry * ry + rz * rz <= MGrid * MGrid

IsDensityMatrix(X) == IsHermitian(X) /\ UnitTrace(X) /\ InBlochBall(X)

\* fewer operators than the n^2 - 1 real parameters of a density matrix
UnderDetermined ==
    Len(measurement_bases) < Len(measurement_bases[1]) * Len(measurement_bases[1]) - 1

\* C13: whatever valid input qubit_state_tomography is called with, the rho
\* it returns is a density matrix: Hermitian, positive semidefinite and of
\* trace 1; an under-determined input is not rejected and a feasible point
\* is returned for it too.
C13_ReturnsDensityMatrix ==
    /\ (InStateTomography /\ pc = "returned") => IsDensityMatrix(ret.value)
    /\ (InStateTomography /\ ~InvalidStateTomography /\ pc = "raised")
          => exc.type = "SolverError"

C13_Witness ==
    /\ InStateTomography /\ pc = "returned"
    /\ measurement_bases = <<sigmaz>>
    /\ UnderDetermined
    /\ IsDensityMatrix(ret.value)
    /\ ret.value[1][2] # CZero

Trace(X) == CSumTo([i \in 1..Len(X) |-> X[i][i]], Len(X))

\* the single-qubit density matrices of the lattice
QubitStates == {x \in HermitianCandidates(2) : IsDensityMatrix(x)}

\* values[i] = trace(B_i rho0) for each operator, rho0 in numerators over MGrid
MeasuredOn(rho0) ==
    /\ Len(values) = Len(measurement_bases)
    /\ \A i \in 1..Len(measurement_bases) :
          Trace(MatMul(measurement_bases[i], rho0)) = <<MGrid * values[i], 0>>

PauliBasis == <<sigmax, sigmay, sigmaz>>

\* C14 as stated: with the informationally complete basis (sigma_x, sigma_y,
\* sigma_z) and values_i = trace(B_i rho0) for a single-qubit density matrix
\* rho0, whatever its Pauli-Y component, the rho returned equals rho0.
C14_Original ==
    (InStateTomography /\ pc = "returned" /\ measurement_bases = PauliBasis) =>
        \A rho0 \in QubitStates : MeasuredOn(rho0) => ret.value = rho0

InProcessTomography == fn = "process_tomography"

\* sum over c, r of row[r + m*c] * X[r][c] (0-based r, c): the product of a
\* design row with the column-major vectorisation of the m x m unknown X
ColumnMajorDot(row, X) ==
    CSumTo([c \in 1..Len(X) |->
               CSumTo([r \in 1..Len(X) |-> CMul(row[r + Len(X) * (c - 1)], X[r][c])],
                      Len(X))], Len(X))

\* the objective value of X with the unknown taken column-major
ColumnMajorCost(X) ==
    IF InStateTomography
    THEN BigSumTo([i \in 1..Len(A) |->
                      LET e == Re(ColumnMajorDot(A[i], X)) - MGrid * values[i]
                      IN  BigMul(e, e)], Len(A))
    ELSE BigSumTo([i \in 1..Len(A) |->
                      LET z == CSub(ColumnMajorDot(A[i], X), CScale(MGrid, Y[i]))
                      IN  BigAdd(BigMul(Re(z), Re(z)), BigMul(Im(z), Im(z)))], Len(A))

\* C15: the design matrix of qubit_state_tomography is k x m^2 with
\* A[i][r + m*c] = B_i[r][c] (0-based, column-major), and in both tomography
\* routines the unknown enters the objective vectorised in the same
\* column-major order; no path flattens row-major.
C15_ColumnMajor ==
    /\ (InStateTomography /\ pc \in {"L28", "L38", "L41", "returned"}) =>
          /\ Len(A) = Len(measurement_bases)
          /\ \A i \in 1..Len(A) :
                /\ Len(A[i]) = n * n
                /\ \A r \in 0..(n - 1) : \A c \in 0..(n - 1) :
                      A[i][r + n * c + 1] = measurement_bases[i][r + 1][c + 1]
    /\ ((InStateTomography \/ InProcessTomography) /\ pc = "returned") =>
          result = ColumnMajorCost(ret.value)

C15_Witness ==
    /\ InStateTomography /\ pc = "returned"
    /\ measurement_bases = PauliBasis
    /\ A[2] = <<R(0), I(1), I(-1), R(0)>>
    /\ result = ColumnMajorCost(ret.value)

\* rho_before and rho_after differ in the number of samples or in dimension
ShapesDiffer == rho_before.shape # rho_after.shape

\* the number of expansion operators is not N^2, N the dimension of the samples
BasisCountWrong ==
    /\ Len(rho_before.shape) = 3
    /\ expand_basis.shape[1] # rho_before.shape[2] * rho_before.shape[2]

\* C16 as stated: process_tomography fails with the typed error ShapeError
\* whenever rho_before and rho_after differ in sample count or dimension or
\* len(expand_basis) is not N^2, before the design matrix is used in a solve.
C16_Original ==
    (InProcessTomography /\ (ShapesDiffer \/ BasisCountWrong)) =>
        /\ pc \in {"L49", "L55", "L57", "L59", "raised"}
        /\ pc = "raised" => exc.type = "ShapeError"
        /\ solve_calls = 0

\* C16 (amended): process_tomography fails with Python's AssertionError (the
\* assert statements carry no message) whenever rho_before and rho_after
\* differ in sample count or dimension or len(expand_basis) is not N^2; the
\* assertion is raised before the design matrix is built, no problem is
\* formulated, the backend is not invoked and nothing is returned.
C16_ShapeAssertionError ==
    (InProcessTomography /\ (ShapesDiffer \/ BasisCountWrong)) =>
        /\ pc \in {"L49", "L55", "L57", "L59", "raised"}
        /\ pc \in {"L57", "L59"} => ~ShapesDiffer
        /\ pc = "raised" => exc = [type |-> "AssertionError", msg |-> ""]
        /\ solve_calls = 0
        /\ prob = Unset
        /\ ret = Unset

C16_Witness ==
    /\ InProcessTomography /\ pc = "raised"
    /\ Len(rho_before.shape) = 3 /\ Len(rho_after.shape) = 3
    /\ rho_before.shape[1] = rho_after.shape[1]
    /\ rho_before.shape[2] # rho_after.shape[2]
    /\ exc.type = "AssertionError"

\* M without row i and column j
Minor(M, i, j) ==
    [r \in 1..(Len(M) - 1) |->
        [c \in 1..(Len(M) - 1) |-> M[IF r < i THEN r ELSE r + 1][IF c < j THEN c ELSE c + 1]]]

RECURSIVE CDet(_)
CDet(M) ==
    IF Len(M) = 1 THEN M[1][1]
    ELSE CSumTo([j \in 1..Len(M) |->
                    CScale(IF j % 2 = 1 THEN 1 ELSE 0 - 1,
                           CMul(M[1][j], CDet(Minor(M, 1, j))))], Len(M))

\* the matrices ms (a stack of dim x dim matrices with entries in multiples of
\* unit) span the dim x dim matrices: some dim^2 of them are independent
Spans(stack, unit) ==
    LET dim == stack.shape[2]
        InUnits(z) == <<z[1] \div unit, z[2] \div unit>>
        flat(l) == [q \in 1..(dim * dim) |-> InUnits(VecF(stack.data[l])[q])]
    IN  \E sel \in [1..(dim * dim) -> 1..stack.shape[1]] :
            CDet([q \in 1..(dim * dim) |-> flat(sel[q])]) # CZero

\* states the channel is then tried on
TestStates(dim) == IF dim = 1 THEN {scalar1, half1} ELSE {ket0, ket1, plus, plusi}

\* sum over m, n of chi[m][n] * E_m sigma E_n^dagger, entry [a][d]; times MGrid
ApplyChi(chi, sigma, a, d) ==
    CSumTo([m \in 1..Len(chi) |->
               CSumTo([j \in 1..Len(chi) |->
                          CMul(chi[m][j],
                               MatMul(MatMul(expand_basis.data[m], sigma),
                                      Dagger(expand_basis.data[j]))[a][d])],
                      Len(chi))], Len(chi))

RepresentsIdentity(chi) ==
    \A sigma \in TestStates(N) : \A a \in 1..N : \A d \in 1..N :
        ApplyChi(chi, sigma, a, d) = CScale(MGrid, sigma[a][d])

\* C17 as stated: whenever rho_after[l] = rho_before[l] for every sample, the
\* chi returned represents the identity channel: applied to any test state
\* sigma, sum_{m,n} chi[m][n] E_m sigma E_n^dagger is sigma.
C17_Original ==
    (InProcessTomography /\ pc = "returned" /\ rho_after = rho_before) =>
        RepresentsIdentity(ret.value)

\* C17 (amended): when rho_after[l] = rho_before[l] for every sample, the
\* samples span the N x N matrices and expand_basis is a basis of them, the
\* chi returned represents the identity channel.
C17_IdentityWhenComplete ==
    (/\ InProcessTomography /\ pc = "returned" /\ rho_after = rho_before
     /\ Spans(rho_before, H) /\ Spans(expand_basis, 1)) =>
        RepresentsIdentity(ret.value)

C17_Witness ==
    /\ InProcessTomography /\ pc = "returned"
    /\ rho_before = Stack(<<ket0, ket1, plus, plusi>>)
    /\ rho_after = rho_before
    /\ Spans(rho_before, H) /\ Spans(expand_basis, 1)
    /\ RepresentsIdentity(ret.value)

\* The diagonal and every principal 2 x 2 minor of X are non-negative (this is
\* X >> 0 for the Hermitian matrices that are 1 x 1, 2 x 2 or diagonal).
PositiveSemidefinite(X) ==
    /\ \A i \in 1..Len(X) : Re(X[i][i]) >= 0
    /\ \A i \in 1..Len(X) : \A j \in 1..Len(X) :
          i # j => (Re(X[i][i]) * Re(X[j][j])
                      >= Re(X[i][j]) * Re(X[i][j]) + Im(X[i][j]) * Im(X[i][j]))

\* the process-tomography problem has been formulated
PtFormulated ==
    \/ pc \in {"L86", "L89", "returned"}
    \/ pc = "raised" /\ exc.type = "SolverError"

\* C18: the chi process_tomography returns is Hermitian and positive
\* semidefinite, and these are the only constraints of the problem: there is
\* no trace constraint, so the chi returned is optimal among the positive
\* semidefinite Hermitian matrices of every trace.
C18_HermitianPsdOnly ==
    /\ (InProcessTomography /\ PtFormulated) =>
          /\ prob.var = "hermitian"
          /\ prob.constraints = {"X >> 0"}
    /\ (InProcessTomography /\ pc = "returned") =>
          /\ IsHermitian(ret.value)
          /\ PositiveSemidefinite(ret.value)
          /\ \A q \in HermitianCandidates(N * N) :
                PositiveSemidefinite(q) => ~BigLess(ColumnMajorCost(q), result)

C18_Witness ==
    /\ InProcessTomography /\ pc = "returned"
    /\ rho_before = Stack(<<scalar1>>) /\ rho_after = Stack(<<half1>>)
    /\ ret.value = << << <<1, 0>> >> >>
    /\ ~UnitTrace(ret.value)

(***************************************************************************)
(* Claims about two calls.                                                 *)
(***************************************************************************)
\* the arguments the call of frame f was made with
ArgsOf(f) ==
    CASE f.fn = "deconfusion" -> <<f.fn, f.C, f.p_measured>>
      [] f.fn = "qubit_state_tomography" -> <<f.fn, f.measurement_bases, f.values>>
      [] f.fn = "process_tomography" -> <<f.fn, f.rho_before, f.rho_after, f.expand_basis>>

\* the frame of call i, running or not
FrameOf(i) == IF other.id = i THEN other ELSE Frame

\* the call of frame f has formulated its problem
Formulated(f) ==
    \/ f.pc \in {"L33", "L36", "L38", "L41", "L86", "L89", "returned"}
    \/ f.pc = "raised" /\ f.exc.type = "SolverError"

SameInputs == ArgsOf(FrameOf(1)) = ArgsOf(FrameOf(2))

\* C19: a call never modifies the arrays it was passed, and, no state being
\* kept between or across calls, two calls made with equal inputs formulate
\* the identical problem: the same design matrix, the same target vector and
\* the same objective and constraint set.
C19_Stateless ==
    /\ []((SameInputs /\ Formulated(FrameOf(1)) /\ Formulated(FrameOf(2))) =>
            /\ FrameOf(1).A = FrameOf(2).A
            /\ FrameOf(1).Y = FrameOf(2).Y
            /\ FrameOf(1).prob = FrameOf(2).prob)
    /\ [][/\ ArgsOf(FrameOf(1))' = ArgsOf(FrameOf(1))
          /\ ArgsOf(FrameOf(2))' = ArgsOf(FrameOf(2))]_vars

C19_Witness ==
    /\ SameInputs
    /\ fn = "process_tomography"
    /\ pc = "returned" /\ other.pc = "returned"
    /\ prob = other.prob /\ A = other.A /\ Y = other.Y
    /\ rho_before = other.rho_before

\* the design matrix, target and problem that the arguments of frame f alone
\* determine
OwnDesign(f) ==
    IF f.fn = "qubit_state_tomography"
    THEN DesignMatrix(f.measurement_bases)
    ELSE ProcessDesign(f.expand_basis, f.rho_before, f.rho_before.shape[1],
                       f.rho_before.shape[2])

OwnProblem(f) ==
    CASE f.fn = "deconfusion" -> DeconfProblem(f.C, f.p_measured, Len(f.C))
      [] f.fn = "qubit_state_tomography" ->
            QstProblem(OwnDesign(f), f.values, Len(f.measurement_bases[1]))
      [] f.fn = "process_tomography" ->
            PtProblem(OwnDesign(f),
                      ProcessTarget(f.rho_after, f.rho_before.shape[1], f.rho_before.shape[2]),
                      f.rho_before.shape[2])

DesignBuilt(f) == f.fn # "deconfusion" /\ (f.pc \in {"L28", "L77"} \/ Formulated(f))

Solved(f) == f.pc \in {"L36", "L41", "L89", "returned"}

DependsOnOwnInputs(f) ==
    /\ DesignBuilt(f) => f.A = OwnDesign(f)
    /\ Formulated(f) =>
          /\ f.prob # Unset
          /\ f.prob.objective = OwnProblem(f).objective
          /\ f.prob.n = OwnProblem(f).n
          /\ f.prob = OwnProblem(f)
    /\ Solved(f) => f.value \in Minimisers(OwnProblem(f))
    /\ f.pc = "returned" => f.ret = [value |-> f.value]

\* C20: two calls in progress at once, switched between at any statement and
\* without any lock, do not affect each other: in every interleaving the
\* design matrix, the problem (its variable included) and the value returned
\* by each call are those determined by that call's own inputs.
C20_Independent == DependsOnOwnInputs(FrameOf(1)) /\ DependsOnOwnInputs(FrameOf(2))

C20_Witness ==
    /\ fn = "deconfusion" /\ pc = "L36"
    /\ other.fn = "qubit_state_tomography" /\ other.pc = "L41"
    /\ value \in Minimisers(DeconfProblem(C, p_measured, Len(C)))
    /\ other.A = DesignMatrix(other.measurement_bases)

(***************************************************************************)
(* Claims about the linear models of the tomography routines.              *)
(***************************************************************************)
\* the row of A and Y that belongs to entry (a, d) of sample l (all 0-based)
RowOf(l, a, d) == l + n_basis * (a + N * d) + 1

\* C21: the design matrix of process_tomography keeps the index
\* correspondence with the target vector: the row that holds
\* rho_after[l][a][d] in Y holds, in column m + N^2 * n, the entry [a][d] of
\* expand_basis[m] rho_before[l] expand_basis[n]^dagger; hence A vec(chi) at
\* that row is the entry [a][d] of sum_{m,n} chi[m][n] E_m rho_l E_n^dagger.
C21_IndexCorrespondence ==
    (InProcessTomography /\ pc \in {"L77", "L86", "L89", "returned"}) =>
        /\ Len(A) = n_basis * N * N /\ Len(Y) = n_basis * N * N
        /\ \A l \in 0..(n_basis - 1) : \A a \in 0..(N - 1) : \A d \in 0..(N - 1) :
              /\ Y[RowOf(l, a, d)] = rho_after.data[l + 1][a + 1][d + 1]
              /\ Len(A[RowOf(l, a, d)]) = N * N * N * N
              /\ \A m \in 0..(N * N - 1) : \A j \in 0..(N * N - 1) :
                    A[RowOf(l, a, d)][m + N * N * j + 1] =
                        MatMul(MatMul(expand_basis.data[m + 1], rho_before.data[l + 1]),
                               Dagger(expand_basis.data[j + 1]))[a + 1][d + 1]
              /\ pc = "returned" =>
                    ColumnMajorDot(A[RowOf(l, a, d)], ret.value) =
                        ApplyChi(ret.value, rho_before.data[l + 1], a + 1, d + 1)

C21_Witness ==
    /\ InProcessTomography /\ pc = "returned"
    /\ rho_before = Stack(<<ket0, plus, plusi>>)
    /\ N = 2 /\ n_basis = 3
    /\ \E row \in 1..Len(A) : \E col \in 1..Len(A[row]) : Im(A[row][col]) # 0
    /\ Y[RowOf(2, 1, 0)] = <<0, H>>

\* C22 as stated: the prediction of the state-tomography model for operator
\* B_i is its expectation value: for every Hermitian B_i and every Hermitian
\* rho, (A vec(rho))_i = trace(B_i rho), A and vec being the routine's
\* column-major flattenings.
C22_Original ==
    (InStateTomography /\ pc \in {"L28", "L38", "L41", "returned"}) =>
        \A i \in 1..Len(A) : \A rho \in HermitianCandidates(n) :
            ColumnMajorDot(A[i], rho) = Trace(MatMul(measurement_bases[i], rho))

\* row i of A vec(X) - Y, times MGrid
ProcessResidual(X, i) == CSub(ColumnMajorDot(A[i], X), CScale(MGrid, Y[i]))

\* the squares of the real parts of the residual alone
RealPartCost(X) ==
    BigSumTo([i \in 1..Len(A) |->
                 BigMul(Re(ProcessResidual(X, i)), Re(ProcessResidual(X, i)))], Len(A))

\* the squares of the real and of the imaginary parts
ModulusCost(X) ==
    BigSumTo([i \in 1..Len(A) |->
                 BigAdd(BigMul(Re(ProcessResidual(X, i)), Re(ProcessResidual(X, i))),
                        BigMul(Im(ProcessResidual(X, i)), Im(ProcessResidual(X, i))))],
             Len(A))

PsdCandidates == {q \in HermitianCandidates(N * N) : PositiveSemidefinite(q)}

\* C23 as stated: the objective of process_tomography penalises the real
\* part of the residual A vec(chi) - vec(rho_after) only; the imaginary part
\* does not enter the minimised quantity.
C23_Original ==
    (InProcessTomography /\ pc = "L86") =>
        \A q \in PsdCandidates : Objective(prob, q) = RealPartCost(q)

\* C23 (amended): the objective of process_tomography is the sum of the
\* squared moduli of the residual A vec(chi) - vec(rho_after): the real and
\* the imaginary part of every residual entry are both penalised, and the chi
\* returned minimises that sum.
C23_PenalisesModulus ==
    /\ (InProcessTomography /\ pc = "L86") =>
          \A q \in PsdCandidates : Objective(prob, q) = ModulusCost(q)
    /\ (InProcessTomography /\ pc = "returned") =>
          /\ result = ModulusCost(ret.value)
          /\ \A q \in PsdCandidates : ~BigLess(ModulusCost(q), result)

\* the channel sigma -> X sigma X
XChannel == [i \in 1..4 |-> [j \in 1..4 |-> IF i = 2 /\ j = 2 THEN <<MGrid, 0>> ELSE CZero]]

C23_Witness ==
    /\ InProcessTomography /\ pc = "returned"
    /\ rho_before = Stack(<<plusi>>) /\ rho_after = rho_before
    /\ expand_basis = Stack(<<eye2, paulix, pauliy, pauliz>>)
    /\ RealPartCost(XChannel) = BigZero
    /\ BigLess(result, ModulusCost(XChannel))

\* row i of A vec(X) - values, times MGrid
StateResidual(X, i) == CSub(ColumnMajorDot(A[i], X), <<MGrid * values[i], 0>>)

StateRealPartCost(X) ==
    BigSumTo([i \in 1..Len(A) |->
                 BigMul(Re(StateResidual(X, i)), Re(StateResidual(X, i)))], Len(A))

\* C24: the objective of qubit_state_tomography is a function of the real
\* part of the residual A vec(rho) - values alone, so two candidates whose
\* residuals have equal real parts and different imaginary parts get the
\* same objective value.
C24_RealPartOnly ==
    (InStateTomography /\ pc = "L38") =>
        \A q \in HermitianCandidates(n) : Objective(prob, q) = StateRealPartCost(q)

\* two candidates that differ in the imaginary part of their off-diagonal entry
RealRho == << << <<1, 0>>, <<1, 0>> >>, << <<1, 0>>, <<1, 0>> >> >>
TiltedRho == << << <<1, 0>>, <<1, 1>> >>, << <<1, 0 - 1>>, <<1, 0>> >> >>

C24_Witness ==
    /\ InStateTomography /\ pc = "L38"
    /\ measurement_bases = <<lowering>>
    /\ Re(StateResidual(RealRho, 1)) = Re(StateResidual(TiltedRho, 1))
    /\ Im(StateResidual(RealRho, 1)) # Im(StateResidual(TiltedRho, 1))
    /\ Objective(prob, RealRho) = Objective(prob, TiltedRho)

(***************************************************************************)
(* The order of the checks of deconfusion.                                 *)
(***************************************************************************)
\* the message of the first rule, in source order, that the input violates
FirstViolation ==
    IF NotSquare THEN "C must be square matrix"
    ELSE IF WrongLength THEN "p.shape must be coordinate with C"
    ELSE "C must be column-wise stochastic matrix"

\* C25: deconfusion validates in a fixed order: the shape of C, then the
\* length of p_measured, then the column sums, then the conditioning
\* diagnostic.  An input that violates several rules fails on the first of
\* them, and an input that fails a validation rule never produces a
\* conditioning warning.
C25_ValidationOrder ==
    InDeconfusion =>
        /\ pc \in {"L17", "L19"} => ~NotSquare
        /\ pc = "L19" => ~WrongLength
        /\ pc = "L21" => ~InvalidDeconfusion
        /\ InvalidDeconfusion =>
              /\ stdout = <<>>
              /\ pc = "raised" =>
                    exc = [type |-> "AssertionError", msg |-> FirstViolation]
        /\ stdout # <<>> => (~InvalidDeconfusion /\ PastDiagnostic)

C25_Witness ==
    /\ InDeconfusion /\ pc = "raised"
    /\ NotSquare /\ ColumnOff(atol + One \div rtol_inv)
    /\ exc.msg = "C must be square matrix"
    /\ stdout = <<>>
(***************************************************************************)
(* C26  average_sweep and the continuous-trigger setting.                  *)
(***************************************************************************)
InAverageSweep == fn = "average_sweep"

\* C26: INIT:CONT is off while the averaged measurement is triggered and
\* while its data are read, averaging is off when the data are read, and
\* when average_sweep has returned normally INIT:CONT is what it was when
\* the call was entered.
C26_ContinuousRestored ==
    InAverageSweep =>
        /\ pc \in {"L313", "L317", "L320"} => ~cont
        /\ pc = "L320" => ~averaging
        /\ pc = "returned" => cont = cont_before

\* a sweep that found continuous mode on has returned its data
C26_Witness ==
    /\ InAverageSweep /\ pc = "returned"
    /\ cont_before /\ cont
    /\ ret = [tuple |-> <<"MySMeaS21", "MySMeaS41">>]

(***************************************************************************)
(* C27  Every accepted trace name can be read back.                        *)
(***************************************************************************)
\* self.trace after the trace parameter was set to a name it accepts
AcceptedTraces == {trace_lookup[x] : x \in TraceEnum}

UnknownTraceRaised == pc = "raised" /\ exc.type = "Exception"

\* C27: once the trace was set to one of the accepted names, get_data
\* returns the data of that trace and does not raise 'Unknown trace'.
C27_Original ==
    (fn = "get_data" /\ trace \in AcceptedTraces) =>
        /\ ~UnknownTraceRaised
        /\ pc = "returned"

(***************************************************************************)
(* C28  SelectableTable keeps a valid selection.                           *)
(***************************************************************************)
ValidSelection == 0 <= selected_index /\ selected_index < Len(rows)

\* C28: with non-empty rows, every click, key event, set_selected_index
\* call and update_rows call (one that raises included) ends with
\* 0 <= selected_index < len(rows); ArrowUp on the first row and ArrowDown
\* on the last row leave selected_index as it is and do not call on_change.
C28_Original ==
    [][ /\ Len(rows') > 0 => ValidSelection'
        /\ (fn' = "_on_key" /\ arg' = "ArrowUp" /\ selected_index = 0) =>
              (selected_index' = selected_index /\ emitted' = <<>>)
        /\ (fn' = "_on_key" /\ arg' = "ArrowDown" /\ selected_index = Len(rows) - 1) =>
              (selected_index' = selected_index /\ emitted' = <<>>) ]_vars

(***************************************************************************)
(* C29  update_rows keeps the selection on the same logical row.           *)
(***************************************************************************)
\* the rows of rs with the key value of the row selected now
SameKeyRows(rs) ==
    {i \in DOMAIN rs : ValidSelection /\ rs[i][row_key] = rows[selected_index + 1][row_key]}

\* C29: when new_rows has a row with the key value of the selected row,
\* update_rows returns with the selection on the first such row of
\* new_rows, rows equal to new_rows, and one call of on_change (when a
\* callback was given) with the new index and row.
C29_SameLogicalRow ==
    [][ (fn' = "update_rows" /\ SameKeyRows(arg') # {}) =>
            /\ pc' = "returned"
            /\ rows' = arg'
            /\ selected_index' + 1 \in SameKeyRows(arg')
            /\ \A i \in SameKeyRows(arg') : selected_index' + 1 <= i
            /\ on_change => emitted' = << <<selected_index', arg'[selected_index' + 1]>> >>
            /\ ~on_change => emitted' = <<>> ]_vars

\* the selected row moved: its key value is found further down in new_rows,
\* twice, and the callback was told the first of the two
C29_Witness ==
    /\ fn = "update_rows" /\ pc = "returned" /\ on_change
    /\ row_key = "id"
    /\ rows = <<[id |-> 2, score |-> 1], [id |-> 1, score |-> 2], [id |-> 1, score |-> 3]>>
    /\ selected_index = 1
    /\ emitted = << <<1, [id |-> 1, score |-> 2]>> >>

====
